---- MODULE Spec2Model ----
(***************************************************************************)
(* A model of the appleseed exporter for Houdini (houdini/soho/AS.py):     *)
(* the project file writer AsProjectFileWriter, the motion blur sampling   *)
(* of SetCameraBlur and the document assembly of Render and main.          *)
(*                                                                         *)
(* The writer is modelled as a record that every writer method maps to a  *)
(* new record.  A Python exception is the field `raised`: once it is set,  *)
(* every later call of the same run is skipped, as the exception unwinds   *)
(* through Render and main, which catch nothing.                           *)
(*                                                                         *)
(* The logger is a collaborator of the writer: log_error is modelled by    *)
(* its report (the message is appended to `errors`).                       *)
(***************************************************************************)
EXTENDS Integers, Sequences, FiniteSets, TLC

VARIABLES
    writer,     \* the AsProjectFileWriter object
    calls,      \* SpecWriter: the begin/end tag calls made so far
    pc,         \* SpecRender: the position of main/Render
    scene,      \* what the scene query API answers (the input)
    env,        \* module globals and logs of the run (the result)
    blur        \* SpecBlur: the input and the result of SetCameraBlur

vars == <<writer, calls, pc, scene, env, blur>>

(***************************************************************************)
(* Bounds of the model.                                                    *)
(***************************************************************************)
\* number of writer calls in one run of SpecWriter
MaxCalls == 4

\* the tag names the writer is driven with in SpecWriter
TagNames == {"scene", "color"}

\* the comment arguments of emit_comment: None, the empty string, a text
CommentArgs == {"None", "", "text"}

(***************************************************************************)
(* AsProjectFileWriter                                                     *)
(***************************************************************************)
\* A Python string that the exporter builds by concatenation is the tuple
\* of its pieces; Str0 is the empty string.
Str0 == << >>
Str(x) == <<x>>

\* An emitted piece of text: its kind k, the tag or element name n, up to
\* three attribute values a, b and c (tuples of string pieces, a being the
\* name attribute), a time t and the indentation written in front of it.
Rec(k, n, a, b, c, t, ind) ==
    [k |-> k, n |-> n, a |-> a, b |-> b, c |-> c, t |-> t, ind |-> ind]

\* AsProjectFileWriter.__init__: level 0, the XML declaration written, an
\* empty tags stack.
NewWriter ==
    [indent_level   |-> 0,
     tags_stack     |-> << >>,
     out            |-> << Rec("xml", "xml", Str0, Str0, Str0, 0, 0) >>,
     errors         |-> << >>,
     begin_tag_attr |-> "method",
     closed         |-> 0,
     raised         |-> "none"]

\* No writer object exists (before main creates it).
NoWriter ==
    [indent_level   |-> 0,
     tags_stack     |-> << >>,
     out            |-> << >>,
     errors         |-> << >>,
     begin_tag_attr |-> "none",
     closed         |-> 0,
     raised         |-> "none"]

\* A statement runs only while no exception is unwinding.
Ok(w) == w.raised = "none"

Raise(w, exc) == IF Ok(w) THEN [w EXCEPT !.raised = exc] ELSE w

\* AsLogger.log_error, as the report it makes.
log_error(w, msg) == [w EXCEPT !.errors = Append(@, msg)]

\* _write_text without indentation (emit_whiteline and begin_project).
_write_text(w, k) ==
    [w EXCEPT !.out = Append(@, Rec(k, k, Str0, Str0, Str0, 0, 0))]

\* _emit_indent writes " " * indent_level * 4: nothing for a negative level.
IndentWritten(w) == IF w.indent_level < 0 THEN 0 ELSE w.indent_level

\* _emit_text: the indentation, then the text.
_emit_text_c(w, k, n, a, b, c, t) ==
    [w EXCEPT !.out = Append(@, Rec(k, n, a, b, c, t, IndentWritten(w)))]

_emit_text(w, k, n, a, b, t) == _emit_text_c(w, k, n, a, b, Str0, t)

_indent(w) == [w EXCEPT !.indent_level = @ + 1]

\* _unindent reports a level of 0 and decrements all the same.
_unindent(w) ==
    LET w1 == IF w.indent_level = 0
              THEN log_error(w, "Negative indent level requested")
              ELSE w
    IN  [w1 EXCEPT !.indent_level = @ - 1]

\* _begin_tag with its name, its attributes (a, b) and a time attribute.
\* After begin_color the attribute _begin_tag is a string and calling it
\* raises TypeError before anything is done.
_begin_tag_c(w, name, a, b, c, t) ==
    IF ~Ok(w) THEN w
    ELSE IF w.begin_tag_attr # "method" THEN Raise(w, "TypeError")
    ELSE LET w1 == [w EXCEPT !.tags_stack = Append(@, name)]
             w2 == _emit_text_c(w1, "begin", name, a, b, c, t)
         IN  _indent(w2)

_begin_tag_t(w, name, a, b, t) == _begin_tag_c(w, name, a, b, Str0, t)

_begin_tag(w, name, a, b) == _begin_tag_t(w, name, a, b, 0)

\* The condition of _end_tag: the stack is empty, or its popped top differs.
EndTagMismatch(w, name) ==
    \/ Len(w.tags_stack) = 0
    \/ w.tags_stack[Len(w.tags_stack)] # name

\* `len(stack) == 0 or stack.pop() != name`: pop() runs whenever the stack
\* is not empty.
PopStack(s) == IF Len(s) = 0 THEN s ELSE SubSeq(s, 1, Len(s) - 1)

\* A variant of _end_tag that does not report a mismatch.
_end_tag_silent(w, name) ==
    IF ~Ok(w) THEN w
    ELSE LET w2 == [w EXCEPT !.tags_stack = PopStack(@)]
             w3 == _unindent(w2)
         IN  _emit_text(w3, "end", name, Str0, Str0, 0)

\* A variant of _end_tag that returns at once after reporting a mismatch.
_end_tag_return(w, name) ==
    IF ~Ok(w) THEN w
    ELSE IF EndTagMismatch(w, name)
    THEN [log_error(w, "Closing tag that was not opened")
             EXCEPT !.tags_stack = PopStack(@)]
    ELSE _emit_text(_unindent([w EXCEPT !.tags_stack = PopStack(@)]),
                    "end", name, Str0, Str0, 0)

_end_tag(w, name) ==
    IF ~Ok(w) THEN w
    ELSE LET w1 == IF EndTagMismatch(w, name)
                   THEN log_error(w, "Closing tag that was not opened")
                   ELSE w
             w2 == [w1 EXCEPT !.tags_stack = PopStack(@)]
             w3 == _unindent(w2)
         IN  _emit_text(w3, "end", name, Str0, Str0, 0)

close_project_file(w) ==
    IF ~Ok(w) THEN w ELSE [w EXCEPT !.closed = @ + 1]

emit_whiteline(w) == IF ~Ok(w) THEN w ELSE _write_text(w, "white")

\* emit_comment writes unless msg is None.
emit_comment(w, msg) ==
    IF ~Ok(w) THEN w
    ELSE IF msg # "None" THEN _emit_text(w, "comment", "comment", Str(msg), Str0, 0)
    ELSE w

begin_parm(w, name) == _begin_tag(w, "parameters", name, Str0)

emit_parm(w, name, value) ==
    IF ~Ok(w) THEN w ELSE _emit_text(w, "leaf", "parameter", name, value, 0)

end_parm(w) == _end_tag(w, "parameters")

\* emit_matrix: the matrix tag around four rows of text.
emit_matrix(w) ==
    LET w1 == _begin_tag(w, "matrix", Str0, Str0)
        w2 == IF Ok(w1) THEN _emit_text(w1, "text", "rows", Str0, Str0, 0) ELSE w1
    IN  _end_tag(w2, "matrix")

emit_transform(w, t) ==
    _end_tag(emit_matrix(_begin_tag_t(w, "transform", Str0, Str0, t)), "transform")

emit_assign_material(w, slot, side, material) ==
    IF ~Ok(w) THEN w
    ELSE _emit_text_c(w, "leaf", "assign_material", slot, Str(side),
                      material, 0)

begin_project(w) ==
    IF ~Ok(w) THEN w ELSE _begin_tag(_write_text(w, "white"), "project", Str0, Str0)

end_project(w) == _end_tag(w, "project")

RECURSIVE EmitSearchPathLines(_, _)
EmitSearchPathLines(w, n) ==
    IF n = 0 THEN w
    ELSE _emit_text(EmitSearchPathLines(w, n - 1), "leaf", "search_path", Str0, Str0, 0)

\* emit_searchpaths writes nothing for an empty list.
emit_searchpaths(w, npaths) ==
    IF ~Ok(w) \/ npaths = 0 THEN w
    ELSE LET w1 == _begin_tag(w, "search_paths", Str0, Str0)
             w2 == IF Ok(w1) THEN EmitSearchPathLines(w1, npaths) ELSE w1
         IN  emit_whiteline(_end_tag(w2, "search_paths"))

begin_scene(w) == _begin_tag(w, "scene", Str0, Str0)
end_scene(w) == emit_whiteline(_end_tag(w, "scene"))

begin_camera(w, name, model) == _begin_tag(w, "camera", name, model)
end_camera(w) == emit_whiteline(_end_tag(w, "camera"))

\* begin_color assigns the tuple-less expression ('color') to the attribute
\* _begin_tag: nothing is pushed, written or indented.
begin_color(w) ==
    IF ~Ok(w) THEN w ELSE [w EXCEPT !.begin_tag_attr = "str"]

end_color(w) == _end_tag(w, "color")

begin_assembly(w, name) == _begin_tag(w, "assembly", name, Str0)
end_assembly(w) == emit_whiteline(_end_tag(w, "assembly"))

begin_light(w, name, model) == _begin_tag(w, "light", name, model)
end_light(w) == emit_whiteline(_end_tag(w, "light"))

begin_shader_group(w, name) == _begin_tag(w, "shader_group", name, Str0)
end_shader_group(w) == emit_whiteline(_end_tag(w, "shader_group"))

begin_shader(w, stype, name, layer) ==
    _begin_tag_c(w, "shader", name, Str(stype), layer, 0)
end_shader(w) == _end_tag(w, "shader")

\* emit_connect_shaders: the format string holds the conversion %" , so the
\* % operator raises ValueError before _emit_text is called.
emit_connect_shaders(w) == Raise(w, "ValueError")

begin_surfaceshader(w) ==
    _begin_tag(w, "surface_shader", Str("physical_surface_shader"), Str0)
end_surfaceshader(w) == emit_whiteline(_end_tag(w, "surface_shader"))

begin_material(w, name, model) == _begin_tag(w, "material", name, model)
end_material(w) == emit_whiteline(_end_tag(w, "material"))

begin_object(w, name) == _begin_tag(w, "object", name, Str0)
end_object(w) == emit_whiteline(_end_tag(w, "object"))

begin_object_instance(w, name, obj) == _begin_tag(w, "object_instance", name, obj)
end_object_instance(w) == emit_whiteline(_end_tag(w, "object_instance"))

begin_assembly_instance(w, name, assembly) ==
    _begin_tag(w, "assembly_instance", name, assembly)
end_assembly_instance(w) == emit_whiteline(_end_tag(w, "assembly_instance"))

begin_output(w) == _begin_tag(w, "output", Str0, Str0)
end_output(w) == emit_whiteline(_end_tag(w, "output"))

begin_frame(w) == _begin_tag(w, "frame", Str("beauty"), Str0)
end_frame(w) == _end_tag(w, "frame")

\* begin_configuration writes its opening line itself and indents; it does
\* not go through _begin_tag and pushes nothing.
begin_configuration(w, final) ==
    IF ~Ok(w) THEN w
    ELSE _indent(_emit_text(w, "text", "configuration",
                            Str(IF final THEN "final" ELSE "interactive"),
                            Str0, 0))

end_configuration(w) ==
    IF ~Ok(w) THEN w
    ELSE _emit_text(_unindent(w), "text", "/configuration", Str0, Str0, 0)

begin_configurations(w) == _begin_tag(w, "configurations", Str0, Str0)
end_configurations(w) == emit_whiteline(_end_tag(w, "configurations"))

(***************************************************************************)
(* SetCameraBlur                                                           *)
(*                                                                         *)
(* Times are whole ticks, TicksPerFrame of them in FPSinv = 1.0 / FPS, so  *)
(* that every division SetCameraBlur makes is exact.                       *)
(***************************************************************************)
\* FPSinv, in ticks.
TicksPerFrame == 1680

\* largest requested sample count (xform_motionsamples, geo_motionsamples)
MaxSteps == 6

\* shutter * FPSinv in ticks: no shutter, half a frame, a whole frame
ShutterValues == {0, TicksPerFrame \div 2, TicksPerFrame}

ShutterOffsets == {0, 1}

MotionStyles == {"centered", "leading", "trailing"}

\* the render times (state:time) tried
NowValues == {0, 3 * TicksPerFrame}

RECURSIVE Pow2(_)
Pow2(k) == IF k = 0 THEN 1 ELSE 2 * Pow2(k - 1)

\* round( math.log( g, 2 ) ) for g >= 1: the integer k nearest to log2(g),
\* that is 2^(2k-1) <= g^2 < 2^(2k+1) (log2 of an integer is never k + 0.5).
RoundLog2(g) ==
    CHOOSE k \in 0..g : Pow2(2 * k) <= 2 * g * g /\ g * g < Pow2(2 * k + 1)

\* Lines 1089-1092: gsteps raised to xsteps, then int(2 ** round(log2)).
\* Only called with a larger count >= 1 (math.log raises for less).
GeoSteps(xsteps, gsteps) ==
    LET g == IF xsteps > gsteps THEN xsteps ELSE gsteps
    IN  Pow2(RoundLog2(g))

\* `for i in range(n): steps.append(t0); t0 += td`
TimeSteps(t0, td, n) == [i \in 1..n |-> t0 + (i - 1) * td]

\* A variant of the delta of SetCameraBlur with half the shutter for leading.
DeltaHalfLeading(style, shutter) ==
    IF style = "trailing" THEN 0 ELSE shutter \div 2

Delta(style, shutter) ==
    IF style = "centered" THEN shutter \div 2
    ELSE IF style = "leading" THEN shutter
    ELSE 0

\* SetCameraBlur: the globals it assigns, its return value mblur, and the
\* exception of math.log when the larger requested count is not positive
\* (GeoTimeSteps and VelocityBlurSamples then keep their module values []).
SetCameraBlur(cam, now) ==
    LET delta == Delta(cam.style, cam.shutter)
        camSteps ==
            IF cam.allowblur # 0 /\ cam.shutter # 0 /\ cam.xsteps > 1
            THEN TimeSteps(now - delta, cam.shutter \div (cam.xsteps - 1),
                           cam.xsteps)
            ELSE <<now>>
        g == IF cam.xsteps > cam.gsteps THEN cam.xsteps ELSE cam.gsteps
    IN  IF g < 1
        THEN [CameraTimeSteps     |-> camSteps,
              GeoTimeSteps        |-> << >>,
              VelocityBlurSamples |-> << >>,
              gsteps              |-> g,
              mblur               |-> FALSE,
              raised              |-> "ValueError"]
        ELSE LET gsteps == GeoSteps(cam.xsteps, cam.gsteps)
                 geoSteps ==
                     IF cam.allowblur # 0 /\ cam.shutter # 0 /\ gsteps > 1
                     THEN TimeSteps(now, cam.shutter \div (gsteps - 1), gsteps)
                     ELSE <<now>>
                 blurstart == cam.shutter
                     + (TicksPerFrame \div 2) * (cam.shutteroffset - 1)
                 blurend == cam.shutter
                     + (TicksPerFrame \div 2) * (1 + cam.shutteroffset)
             IN  [CameraTimeSteps     |-> camSteps,
                  GeoTimeSteps        |-> geoSteps,
                  VelocityBlurSamples |-> <<blurstart, blurend>>,
                  gsteps              |-> gsteps,
                  mblur               |-> (cam.allowblur # 0
                                            /\ (gsteps > 1 \/ cam.xsteps > 1)),
                  raised              |-> "none"]

\* What cam.evaluate( CamMotionParms, now ) may answer.
CamMotionParms ==
    [allowblur     : {0, 1},
     xsteps        : 0..MaxSteps,
     gsteps        : 0..MaxSteps,
     shutter       : ShutterValues,
     shutteroffset : ShutterOffsets,
     style         : MotionStyles]

(***************************************************************************)
(* SpecBlur: SetCameraBlur applied to every bounded camera setting.        *)
(***************************************************************************)
InitBlur ==
    /\ writer = NoWriter
    /\ calls = << >>
    /\ pc = "blur"
    /\ scene = [use |-> "none"]
    /\ env = [use |-> "none"]
    /\ \E cam \in CamMotionParms, now \in NowValues :
           blur = [cam |-> cam, now |-> now, called |-> FALSE,
                   res |-> [use |-> "none"]]

CallSetCameraBlur ==
    /\ pc = "blur"
    /\ ~blur.called
    /\ blur' = [blur EXCEPT !.called = TRUE,
                            !.res = SetCameraBlur(blur.cam, blur.now)]
    /\ UNCHANGED <<writer, calls, pc, scene, env>>

NextBlur == CallSetCameraBlur

SpecBlur == InitBlur /\ [][NextBlur]_vars

\* The smallest power of two that is >= n, for n >= 1.
CeilPow2(n) ==
    CHOOSE p \in 1..(2 * n) :
        /\ \E k \in 0..n : p = Pow2(k)
        /\ p >= n
        /\ \A q \in 1..(p - 1) : ~(q >= n /\ \E k \in 0..n : q = Pow2(k))

Max(a, b) == IF a > b THEN a ELSE b

\* C10 (as claimed): for requested counts >= 1 SetCameraBlur sets the
\* geometry blur sample count to the smallest power of two that is >=
\* max(requested geometry steps, camera steps); with blur allowed and a
\* non-zero shutter that is the number of geometry time samples.
C10_GeoStepsNextPowerOfTwo ==
    (pc = "blur" /\ blur.called /\ blur.cam.xsteps >= 1 /\ blur.cam.gsteps >= 1)
        => /\ blur.res.raised = "none"
           /\ blur.res.gsteps = CeilPow2(Max(blur.cam.gsteps, blur.cam.xsteps))
           /\ (blur.cam.allowblur # 0 /\ blur.cam.shutter # 0
                   /\ blur.res.gsteps > 1)
                => Len(blur.res.GeoTimeSteps)
                     = CeilPow2(Max(blur.cam.gsteps, blur.cam.xsteps))

\* C11 (as claimed): when blur is disabled, or the shutter is zero, or both
\* requested sample counts are <= 1 (0 included), SetCameraBlur completes
\* and the camera and the geometry time samples are the single sample now.
C11_CollapseToNow ==
    (/\ pc = "blur" /\ blur.called
     /\ \/ blur.cam.allowblur = 0
        \/ blur.cam.shutter = 0
        \/ (blur.cam.xsteps <= 1 /\ blur.cam.gsteps <= 1))
        => /\ blur.res.raised = "none"
           /\ blur.res.CameraTimeSteps = <<blur.now>>
           /\ blur.res.GeoTimeSteps = <<blur.now>>

\* C12: with blur allowed, a non-zero shutter and xsteps > 1 there are
\* exactly xsteps camera time samples, evenly spaced, the first at
\* now - delta and the last at now - delta + shutter, delta being half the
\* shutter for centered, the shutter for leading and 0 otherwise.
C12_CameraSamplesSpanShutter ==
    (/\ pc = "blur" /\ blur.called
     /\ blur.cam.allowblur # 0 /\ blur.cam.shutter # 0 /\ blur.cam.xsteps > 1)
        => LET steps == blur.res.CameraTimeSteps
               n == blur.cam.xsteps
               delta == CASE blur.cam.style = "centered" -> blur.cam.shutter \div 2
                          [] blur.cam.style = "leading" -> blur.cam.shutter
                          [] OTHER -> 0
           IN  /\ Len(steps) = n
               /\ steps[1] = blur.now - delta
               /\ steps[n] = blur.now - delta + blur.cam.shutter
               /\ \A i \in 1..(n - 2) :
                      steps[i + 1] - steps[i] = steps[i + 2] - steps[i + 1]

\* C12 witness: a shutter of one frame, centered, three samples: half a
\* frame before now, now, half a frame after.
C12_Witness ==
    /\ pc = "blur" /\ blur.called
    /\ blur.cam.allowblur = 1 /\ blur.cam.style = "centered"
    /\ blur.cam.shutter = TicksPerFrame /\ blur.cam.xsteps = 3
    /\ blur.res.CameraTimeSteps
         = <<blur.now - TicksPerFrame \div 2, blur.now,
             blur.now + TicksPerFrame \div 2>>

(***************************************************************************)
(* The scene: what the scene query API (soho, hou) answers.                *)
(***************************************************************************)
\* Python's None where a string is expected.
None == "None"

Digits == <<"0", "1", "2", "3", "4", "5", "6", "7", "8", "9">>

\* '%d' % i, for i >= 0, as a tuple of digits.
RECURSIVE IntStr(_)
IntStr(i) ==
    IF i < 10 THEN <<Digits[i + 1]>>
    ELSE IntStr(i \div 10) \o <<Digits[(i % 10) + 1]>>

\* _ShaderContext, in the order its keys are visited.
ShaderContexts == <<"surface", "displacement", "volume">>

\* A shader string: the shop name in quotes it starts with ("" when there
\* is none) and the whitespace-separated tokens of each comma-separated
\* parameter record.
Shader(shopname, parms) == [shopname |-> shopname, parms |-> parms]

\* The SHOPs of the scene by path: whether hou.node() finds the path, the
\* name of the shop, the contexts it disables and its non-default shader
\* string for each context (<< >> stands for the empty string).
Shops ==
    [p \in {"/shop/A", "/shop/B", "/shop/X"} |->
        CASE p = "/shop/A" ->
                [found |-> TRUE, name |-> "/shop/A", disabled |-> {},
                 shaders |-> [c \in {"surface", "displacement", "volume"} |->
                     IF c = "surface"
                     THEN <<Shader("matte", << <<"Kd", "float", "0.5">>,
                                               <<"tab", "folder">> >>)>>
                     ELSE << >>]]
          [] p = "/shop/B" ->
                [found |-> TRUE, name |-> "/shop/B", disabled |-> {"volume"},
                 shaders |-> [c \in {"surface", "displacement", "volume"} |->
                     IF c = "surface"
                     THEN <<Shader("glossy",
                                   << <<"Cs", "color", "1", "0", "0">> >>)>>
                     ELSE <<Shader("bump", << >>)>>]]
          [] OTHER ->
                [found |-> FALSE, name |-> None, disabled |-> {},
                 shaders |-> [c \in {"surface", "displacement", "volume"} |->
                     << >>]]]

\* A scene object: its name, object:soppath ("" when it has none), whether
\* its node is time dependent, geo_velocityblur, whether SohoGeometry gets
\* a handle, the point attribute v ("none", or its vector size "3", "4"),
\* whether the primitives carry shop_materialpath, the values of it that
\* geo.partition finds in each successive snapshot, and the object's own
\* shop_materialpath.
Obj(name, soppath, xblur, gblur, handle, v, attr, parts, objmat) ==
    [name |-> name, soppath |-> soppath, xblur |-> xblur, gblur |-> gblur,
     handle |-> handle, v |-> v, attr |-> attr, parts |-> parts,
     objmat |-> objmat]

\* The objects a scene is made of in this model.
ObjCatalogue ==
    { Obj("box",    "/obj/box/sop",    FALSE, 0, TRUE,  "none", FALSE,
          << <<"">> >>, "/shop/A"),
      Obj("ball",   "/obj/ball/sop",   FALSE, 0, TRUE,  "none", TRUE,
          << <<"", "/shop/A">> >>, ""),
      Obj("twin",   "/obj/twin/sop",   FALSE, 0, TRUE,  "none", FALSE,
          << <<"">> >>, "/shop/B"),
      Obj("void",   "/obj/void/sop",   FALSE, 0, FALSE, "none", FALSE,
          << <<"">> >>, "/shop/A"),
      Obj("null",   "",                FALSE, 0, FALSE, "none", FALSE,
          << <<"">> >>, ""),
      Obj("mover",  "/obj/mover/sop",  TRUE,  0, TRUE,  "none", FALSE,
          << <<"">> >>, "/shop/X"),
      Obj("cloth",  "/obj/cloth/sop",  FALSE, 1, TRUE,  "none", TRUE,
          << <<"/shop/A">>, <<"/shop/A", "">> >>, ""),
      Obj("spray",  "/obj/spray/sop",  TRUE,  1, TRUE,  "3",    FALSE,
          << <<"">> >>, ""),
      Obj("smoke",  "/obj/smoke/sop",  FALSE, 1, TRUE,  "4",    FALSE,
          << <<"">> >>, "/shop/A") }

\* longest object list handed to Render
MaxObjs == 2

\* most lights in the light list
MaxLights == 1

RECURSIVE SeqsUpTo(_, _)
SeqsUpTo(S, n) ==
    IF n = 0 THEN {<< >>}
    ELSE LET shorter == SeqsUpTo(S, n - 1)
         IN  shorter \cup {Append(q, x) : q \in shorter, x \in S}

\* The object lists (an object may be listed twice).
ObjectLists == SeqsUpTo(ObjCatalogue, MaxObjs)

\* The three project paths of ASProjectPaths: "" when not set, else
\* whether the directory exists.
PathKeys == <<"as_archivepath", "as_texturepath", "as_shaderpath">>

PathConfigs ==
    { [k \in {"as_archivepath", "as_texturepath", "as_shaderpath"} |-> ""],
      [k \in {"as_archivepath", "as_texturepath", "as_shaderpath"} |->
          IF k = "as_archivepath" THEN "exists" ELSE ""],
      [k \in {"as_archivepath", "as_texturepath", "as_shaderpath"} |->
          IF k = "as_shaderpath" THEN "" ELSE "exists"],
      [k \in {"as_archivepath", "as_texturepath", "as_shaderpath"} |->
          IF k = "as_archivepath" THEN "missing" ELSE ""] }

\* The camera settings tried by the renders of SpecRender.
RenderCams ==
    { [allowblur |-> 0, xsteps |-> 1, gsteps |-> 1,
       shutter |-> TicksPerFrame \div 2, shutteroffset |-> 1,
       style |-> "trailing"],
      [allowblur |-> 1, xsteps |-> 2, gsteps |-> 1,
       shutter |-> TicksPerFrame \div 2, shutteroffset |-> 1,
       style |-> "centered"],
      [allowblur |-> 1, xsteps |-> 1, gsteps |-> 3,
       shutter |-> TicksPerFrame, shutteroffset |-> 1,
       style |-> "trailing"] }

\* cam.getName(): a name, or nothing
CamNames == {"cam1", ""}

(***************************************************************************)
(* The translation pipeline.  A run state r holds the writer (r.w), the    *)
(* module globals and the logs of soho (r.e) and the value the last call   *)
(* returned (r.ret).  r.w.raised is the exception that unwinds the run.    *)
(***************************************************************************)
\* The module globals as the module body sets them, and empty logs.
NewEnv ==
    [warnings            |-> << >>,
     errors              |-> << >>,
     errorRaises         |-> FALSE,
     theShaderList       |-> << >>,
     connects            |-> << >>,
     CameraTimeSteps     |-> << >>,
     GeoTimeSteps        |-> << >>,
     VelocityBlurSamples |-> << >>,
     mblur               |-> FALSE,
     master              |-> << >>,
     subs                |-> << >>,
     sceneObjs           |-> << >>,
     files               |-> << >>]

Run(w, e) == [w |-> w, e |-> e, ret |-> << >>]

Running(r) == Ok(r.w)

Throw(r, exc) == [r EXCEPT !.w = Raise(@, exc)]

Return(r, v) == [r EXCEPT !.ret = v]

soho_warning(r, msg) ==
    IF ~Running(r) THEN r ELSE [r EXCEPT !.e.warnings = Append(@, msg)]

\* soho.error reports the message; whether it then ends the script is the
\* host's matter, settled at the first call and the same from then on
\* (errorRaises).
soho_error(r, msg) ==
    IF ~Running(r) THEN r
    ELSE LET r1 == [r EXCEPT !.e.errors = Append(@, msg)]
         IN  IF r.e.errorRaises THEN Throw(r1, "SohoError") ELSE r1

RECURSIVE EmitComments(_, _)
EmitComments(w, msgs) ==
    IF Len(msgs) = 0 THEN w
    ELSE EmitComments(emit_comment(w, Head(msgs)), Tail(msgs))

\* emitHeader: the comments it writes (there are no render definitions:
\* SettingDefs is never filled).
emitHeader(r) ==
    [r EXCEPT !.w = EmitComments(@, <<"Houdini Version", "Generation Time",
                                      "Render Target", "HIP File",
                                      "Output driver">>)]

RECURSIVE CheckPaths(_, _, _)
CheckPaths(r, paths, i) ==
    IF i > Len(PathKeys) THEN r
    ELSE CheckPaths(IF paths[PathKeys[i]] = "missing"
                    THEN soho_error(r, "Directory does not exist")
                    ELSE r,
                    paths, i + 1)

\* The number of project paths that are set.
NumPaths(paths) == Cardinality({k \in DOMAIN paths : paths[k] # ""})

\* getProjectPaths: soho.error for every set path that does not exist.
getProjectPaths(r, paths) == CheckPaths(r, paths, 1)

RECURSIVE EmitParms(_, _)
EmitParms(w, names) ==
    IF Len(names) = 0 THEN w
    ELSE EmitParms(emit_parm(w, Str(Head(names)), Str("value")), Tail(names))

RECURSIVE EmitTransforms(_, _)
EmitTransforms(w, times) ==
    IF Len(times) = 0 THEN w
    ELSE EmitTransforms(emit_transform(w, Head(times)), Tail(times))

\* instanceTransform( obj, time, writer )
instanceTransform(r, time) == [r EXCEPT !.w = emit_transform(@, time)]

\* outputCamera: defineCamera always answers a model, so the camera is
\* written; the value returned is cam.getName().
outputCamera(r, name) ==
    LET w1 == begin_camera(r.w, Str(name), Str("pinhole_camera"))
        w2 == EmitParms(w1, <<"film_dimensions", "focal_length">>)
        w3 == EmitTransforms(w2, r.e.CameraTimeSteps)
    IN  Return([r EXCEPT !.w = end_camera(w3)], name)

\* outputLight for the light number i of the light list.
outputLight(r, i) ==
    LET w1 == begin_light(r.w, <<"light">> \o IntStr(i), Str("point_light"))
        w2 == EmitParms(w1, <<"radiance_multiplier", "radiance",
                              "importance_mulitplier", "cast_indirect_light">>)
        w3 == emit_transform(w2, scene.now)
    IN  [r EXCEPT !.w = end_light(w3)]

RECURSIVE OutputLights(_, _, _)
OutputLights(r, i, n) ==
    IF i > n THEN r ELSE OutputLights(outputLight(r, i), i + 1, n)

\* A variant of the second loop of groupBlurObjects that keeps no objCache.
RECURSIVE GroupObjectsNoCache(_, _, _, _)
GroupObjectsNoCache(objectlist, mblur, objCache, acc) ==
    IF Len(objectlist) = 0 THEN acc
    ELSE LET obj == Head(objectlist)
             rest == Tail(objectlist)
         IN  IF obj.soppath = ""
             THEN GroupObjectsNoCache(rest, mblur, objCache, acc)
             ELSE IF obj.xblur /\ mblur
                  THEN GroupObjectsNoCache(rest, mblur, objCache,
                           [acc EXCEPT !.dynamObj = Append(@, obj)])
             ELSE GroupObjectsNoCache(rest, mblur, objCache,
                      [acc EXCEPT !.staticObj = Append(@, obj)])

\* The second loop of groupBlurObjects (ipr = False): an entry seen before
\* is skipped, so is an object without soppath; a time dependent object is
\* dynamic when there is motion blur, every other object is static.
RECURSIVE GroupObjects(_, _, _, _)
GroupObjects(objectlist, mblur, objCache, acc) ==
    IF Len(objectlist) = 0 THEN acc
    ELSE LET obj == Head(objectlist)
             rest == Tail(objectlist)
         IN  IF obj \in objCache THEN GroupObjects(rest, mblur, objCache, acc)
             ELSE IF obj.soppath = ""
                  THEN GroupObjects(rest, mblur, objCache \cup {obj}, acc)
             ELSE IF obj.xblur /\ mblur
                  THEN GroupObjects(rest, mblur, objCache \cup {obj},
                           [acc EXCEPT !.dynamObj = Append(@, obj)])
             ELSE GroupObjects(rest, mblur, objCache \cup {obj},
                      [acc EXCEPT !.staticObj = Append(@, obj)])

\* The first loop of groupBlurObjects (ipr = True): every object kept is
\* dynamic.
RECURSIVE GroupObjectsIpr(_, _, _)
GroupObjectsIpr(objectlist, objCache, dynamObj) ==
    IF Len(objectlist) = 0 THEN dynamObj
    ELSE LET obj == Head(objectlist)
             rest == Tail(objectlist)
         IN  IF obj \in objCache THEN GroupObjectsIpr(rest, objCache, dynamObj)
             ELSE IF obj.soppath = ""
                  THEN GroupObjectsIpr(rest, objCache \cup {obj}, dynamObj)
             ELSE GroupObjectsIpr(rest, objCache \cup {obj},
                                  Append(dynamObj, obj))

\* groupBlurObjects( objectlist, now, mblur, ipr ): ( staticObj, dynamObj ),
\* and ( None, dynamObj ) with ipr.
groupBlurObjects(objectlist, mblur, ipr) ==
    IF ipr
    THEN [staticObj |-> None,
          dynamObj  |-> GroupObjectsIpr(objectlist, {}, << >>)]
    ELSE GroupObjects(objectlist, mblur, {},
                      [staticObj |-> << >>, dynamObj |-> << >>])

\* getMaterial: a path that hou.node() finds enters theShaderList once and
\* its shop name is returned; for any other path a warning, and None.
getMaterial(r, path) ==
    IF ~Running(r) THEN r
    ELSE IF Shops[path].found
    THEN LET shopname == Shops[path].name
             known == \E i \in 1..Len(r.e.theShaderList) :
                          r.e.theShaderList[i] = shopname
         IN  Return(IF known THEN r
                    ELSE [r EXCEPT !.e.theShaderList = Append(@, shopname)],
                    shopname)
    ELSE Return(soho_warning(r, "Paths to shaders not found"), None)

\* The materials geo.partition finds in the snapshot number i of an object.
PartsAt(obj, i) == obj.parts[((i - 1) % Len(obj.parts)) + 1]

\* A variant of the inner loop of partitionMaterial that starts a new list
\* for the material every time.
RECURSIVE AddPartsReplace(_, _, _)
AddPartsReplace(splits, geo, keys) ==
    IF Len(keys) = 0 THEN splits
    ELSE LET material == Head(keys)
             at == {i \in 1..Len(splits) : splits[i].key = material}
             new == IF at = {}
                    THEN Append(splits, [key |-> material, snaps |-> <<geo>>])
                    ELSE [i \in 1..Len(splits) |->
                             IF i \in at
                             THEN [splits[i] EXCEPT !.snaps = <<geo>>]
                             ELSE splits[i]]
         IN  AddPartsReplace(new, geo, Tail(keys))

RECURSIVE AddParts(_, _, _)
AddParts(splits, geo, keys) ==
    IF Len(keys) = 0 THEN splits
    ELSE LET material == Head(keys)
             at == {i \in 1..Len(splits) : splits[i].key = material}
             new == IF at = {}
                    THEN Append(splits, [key |-> material, snaps |-> <<geo>>])
                    ELSE [i \in 1..Len(splits) |->
                             IF i \in at
                             THEN [splits[i] EXCEPT !.snaps = Append(@, geo)]
                             ELSE splits[i]]
         IN  AddParts(new, geo, Tail(keys))

RECURSIVE SplitGeo(_, _, _)
SplitGeo(splits, obj, geoList) ==
    IF Len(geoList) = 0 THEN splits
    ELSE SplitGeo(AddParts(splits, Head(geoList), PartsAt(obj, Head(geoList))),
                  obj, Tail(geoList))

\* partitionMaterial: with the attribute on the primitives of geoList[0],
\* every snapshot is partitioned and each part joins the list of its
\* material; without it, one entry "" holding geoList.  (A snapshot is the
\* number of its time sample; the entries are in the order of insertion.)
partitionMaterial(obj, geoList) ==
    IF obj.attr THEN SplitGeo(<< >>, obj, geoList)
    ELSE << [key |-> "", snaps |-> geoList] >>

\* A variant of lines 881-906 of parseGeoObject that never looks at the
\* velocity attribute.
GeoSamplesStepped(r, obj) ==
    IF obj.gblur # 0
    THEN IF ~obj.handle THEN [geoList |-> << >>, time_samples |-> << >>]
         ELSE [geoList |-> [i \in 1..Len(r.e.GeoTimeSteps) |-> i],
               time_samples |-> r.e.GeoTimeSteps]
    ELSE [geoList |-> IF obj.handle THEN <<1>> ELSE << >>,
          time_samples |-> <<scene.now>>]

\* Lines 881-906 of parseGeoObject: the snapshots and their time samples.
\* `v_handle = False` for a vector size other than 3 still passes the test
\* `v_handle >= 0`, so any velocity attribute selects the velocity samples.
GeoSamples(r, obj) ==
    IF obj.gblur # 0
    THEN IF ~obj.handle THEN [geoList |-> << >>, time_samples |-> << >>]
         ELSE IF obj.v # "none"
         THEN [geoList |-> [i \in 1..Len(r.e.VelocityBlurSamples) |-> 1],
               time_samples |-> r.e.VelocityBlurSamples]
         ELSE [geoList |-> [i \in 1..Len(r.e.GeoTimeSteps) |-> i],
               time_samples |-> r.e.GeoTimeSteps]
    ELSE [geoList |-> IF obj.handle THEN <<1>> ELSE << >>,
          time_samples |-> <<scene.now>>]

\* The archive files of one partition: name_0, name_1, ... each written
\* with time_samples[ timecounter ] of the list repeated ten times (a
\* partition never holds more snapshots than there are time samples).
ArchiveFiles(partname, snaps, time_samples) ==
    [i \in 1..Len(snaps) |->
        [name |-> partname \o <<"_">> \o IntStr(i - 1),
         geo  |-> snaps[i],
         time |-> time_samples[((i - 1) % Len(time_samples)) + 1]]]

\* The loop of parseGeoObject over the partitions, from partition number i:
\* `saved` collects [path, filenameList, shopname] for each.
RECURSIVE ParseParts(_, _, _, _, _, _, _)
ParseParts(r, obj, name, partGeo, time_samples, saved, i) ==
    IF ~Running(r) THEN r
    ELSE IF i > Len(partGeo) THEN Return(r, [ok |-> TRUE, parts |-> saved])
    ELSE LET shoppath == partGeo[i].key
             r1 == IF shoppath # "" THEN getMaterial(r, shoppath)
                   ELSE IF obj.objmat # "" THEN getMaterial(r, obj.objmat)
                   ELSE Return(r, None)
             shopname == r1.ret
             partname == name \o <<"-mat">> \o IntStr(i - 1)
             files == ArchiveFiles(partname, partGeo[i].snaps, time_samples)
             r2 == [r1 EXCEPT !.e.files = @ \o files]
             archives == [path |-> IF scene.paths["as_archivepath"] # ""
                                   THEN "as_archivepath" ELSE "hip",
                          files |-> [k \in 1..Len(files) |-> files[k].name],
                          shopname |-> shopname]
         IN  ParseParts(r2, obj, name, partGeo, time_samples,
                        Append(saved, archives), i + 1)

\* parseGeoObject: r.ret.ok is FALSE (the value False) without a snapshot,
\* else r.ret.parts are the archives of the partitions.
parseGeoObject(r, obj, name) ==
    IF ~Running(r) THEN r
    ELSE LET gs == GeoSamples(r, obj)
         IN  IF Len(gs.geoList) < 1
             THEN Return(r, [ok |-> FALSE, parts |-> << >>])
             ELSE LET partGeo == partitionMaterial(obj, gs.geoList)
                      r1 == getProjectPaths(r, scene.paths)
                  IN  ParseParts(r1, obj, name, partGeo, gs.time_samples,
                                 << >>, 1)

\* A variant of the loop of outputGeometry over the files that numbers the
\* entries from 1.
RECURSIVE EmitFileParmsFromOne(_, _, _, _)
EmitFileParmsFromOne(w, path, files, i) ==
    IF i > Len(files) THEN w
    ELSE EmitFileParmsFromOne(emit_parm(w, IntStr(i), <<path, "/">> \o files[i]),
                              path, files, i + 1)

\* The loop of outputGeometry over enumerate( parms[1] ).
RECURSIVE EmitFileParms(_, _, _, _)
EmitFileParms(w, path, files, i) ==
    IF i > Len(files) THEN w
    ELSE EmitFileParms(emit_parm(w, IntStr(i - 1), <<path, "/">> \o files[i]),
                       path, files, i + 1)

\* The loop of outputGeometry over the saved archives: one object each.
RECURSIVE OutputObjects(_, _, _, _, _)
OutputObjects(r, name, saved, instances, i) ==
    IF i > Len(saved) THEN Return(r, [ok |-> TRUE, instances |-> instances])
    ELSE LET parms == saved[i]
             objname == name \o <<"_">> \o IntStr(i - 1)
             w1 == begin_object(r.w, objname)
             w2 == IF Len(parms.files) > 1
                   THEN end_parm(EmitFileParms(begin_parm(w1, Str("filename")),
                                               parms.path, parms.files, 1))
                   ELSE emit_parm(w1, Str("filename"),
                                  <<parms.path, "/">> \o parms.files[1])
             w3 == end_object(w2)
         IN  OutputObjects([r EXCEPT !.w = w3], name, saved,
                           Append(instances,
                                  [obj |-> objname, shop |-> parms.shopname]),
                           i + 1)

\* outputGeometry: r.ret.instances is the list of (object name, shop name);
\* r.ret.ok is FALSE (the value False) after the warning, when
\* parseGeoObject saved nothing.
outputGeometry(r, obj) ==
    IF ~Running(r) THEN r
    ELSE LET name == <<obj.name, "-geo">>
             r1 == parseGeoObject(r, obj, name)
             saved == r1.ret
         IN  IF ~Running(r1) THEN r1
             ELSE IF saved.ok /\ Len(saved.parts) > 0
             THEN OutputObjects(r1, name, saved.parts, << >>, 1)
             ELSE Return(soho_warning(r1, "No geometry returned on object"),
                         [ok |-> FALSE, instances |-> << >>])

outputGeometryInstance(r, obj) == outputGeometry(r, obj)

\* A variant of the loop of outputInstances that writes nothing for an
\* instance without a material.
RECURSIVE InstanceObjectsNoComment(_, _, _)
InstanceObjectsNoComment(r, instances, i) ==
    IF i > Len(instances) THEN r
    ELSE LET objName == instances[i].obj
             shopName == instances[i].shop
             w1 == begin_object_instance(r.w, objName \o <<".inst">>,
                                         objName \o <<".0">>)
             w2 == emit_transform(w1, scene.now)
             w3 == IF shopName # None
                   THEN emit_assign_material(
                            emit_assign_material(w2, <<"/mat", shopName>>,
                                "front", <<"/mat", shopName>>),
                            <<"/mat", shopName>>, "back", <<"/mat", shopName>>)
                   ELSE w2
         IN  InstanceObjectsNoComment(
                 [r EXCEPT !.w = end_object_instance(w3)], instances, i + 1)

\* The loop of outputInstances over the instances of one object.
RECURSIVE InstanceObjects(_, _, _)
InstanceObjects(r, instances, i) ==
    IF i > Len(instances) THEN r
    ELSE LET objName == instances[i].obj
             shopName == instances[i].shop
             w1 == begin_object_instance(r.w, objName \o <<".inst">>,
                                         objName \o <<".0">>)
             w2 == emit_transform(w1, scene.now)
             w3 == IF shopName # None
                   THEN emit_assign_material(
                            emit_assign_material(w2, <<"/mat", shopName>>,
                                "front", <<"/mat", shopName>>),
                            <<"/mat", shopName>>, "back", <<"/mat", shopName>>)
                   ELSE emit_comment(w2, " No shader or material on object ")
         IN  InstanceObjects([r EXCEPT !.w = end_object_instance(w3)],
                             instances, i + 1)

\* outputInstances over a dictionary object -> instances, as the list of
\* its entries; `for geo in instances` raises TypeError when the entry is
\* the False that outputGeometry returned.
RECURSIVE outputInstances(_, _)
outputInstances(r, sceneObjs) ==
    IF ~Running(r) \/ Len(sceneObjs) = 0 THEN r
    ELSE LET entry == Head(sceneObjs)
         IN  IF ~entry.ok THEN Throw(r, "TypeError")
             ELSE outputInstances(InstanceObjects(r, entry.instances, 1),
                                  Tail(sceneObjs))

\* The loop of Render over the dynamic objects, from the sub-assembly
\* number i (named 'sub' + str( i - 1 )).
RECURSIVE SubAssemblies(_, _, _)
SubAssemblies(r, subs, i) ==
    IF ~Running(r) \/ i > Len(subs) THEN r
    ELSE LET r1 == [r EXCEPT !.w = begin_assembly(@, <<"sub">> \o IntStr(i - 1))]
             r2 == outputGeometryInstance(r1, subs[i])
             r3 == outputInstances(r2, << r2.ret >>)
             r4 == [r3 EXCEPT !.w = end_assembly(@)]
         IN  SubAssemblies(r4, subs, i + 1)

\* instanceSubAssemblies: an assembly_instance for every sub-assembly, with
\* one transform for each camera time sample (a dynamic object is time
\* dependent).
RECURSIVE instanceSubAssemblies(_, _, _)
instanceSubAssemblies(r, subs, i) ==
    IF ~Running(r) \/ i > Len(subs) THEN r
    ELSE LET assem_name == <<"sub">> \o IntStr(i - 1)
             w1 == begin_assembly_instance(r.w, assem_name \o <<"_instance_0">>,
                                           assem_name)
             w2 == IF subs[i].xblur
                   THEN EmitTransforms(w1, r.e.CameraTimeSteps)
                   ELSE emit_transform(w1, scene.now)
         IN  instanceSubAssemblies([r EXCEPT !.w = end_assembly_instance(w2)],
                                   subs, i + 1)

\* The loop of Render over the static objects: the dictionary sceneObjs.
RECURSIVE MasterGeometry(_, _, _)
MasterGeometry(r, master, i) ==
    IF ~Running(r) \/ i > Len(master) THEN r
    ELSE LET r1 == outputGeometryInstance(r, master[i])
         IN  MasterGeometry(
                 IF Running(r1)
                 THEN [r1 EXCEPT !.e.sceneObjs = Append(@, r1.ret)]
                 ELSE r1,
                 master, i + 1)

instanceMasterAssembly(r) ==
    [r EXCEPT !.w = end_assembly_instance(
                        emit_transform(
                            begin_assembly_instance(@, Str("master.inst"),
                                                    Str("master")), 0))]

\* convertToString: ' '.join( map( str, value ) ), the string as the tuple
\* of its pieces.
RECURSIVE convertToString(_)
convertToString(value) ==
    IF Len(value) = 0 THEN << >>
    ELSE IF Len(value) = 1 THEN <<value[1]>>
    ELSE <<value[1], " ">> \o convertToString(Tail(value))

\* A variant of the loop of processShop that skips only the records of
\* fewer than 2 tokens.
RECURSIVE EmitShopParmsTwo(_, _)
EmitShopParmsTwo(w, parms) ==
    IF Len(parms) = 0 THEN w
    ELSE LET parm == Head(parms)
         IN  EmitShopParmsTwo(IF Len(parm) < 2 THEN w
                              ELSE emit_parm(w, Str(parm[1]),
                                             convertToString(Tail(parm))),
                              Tail(parms))

\* The loop of processShop over the parameter records: a record of fewer
\* than 3 tokens is skipped, else its first token is the name and the
\* other tokens, joined by spaces, the value.
RECURSIVE EmitShopParms(_, _)
EmitShopParms(w, parms) ==
    IF Len(parms) = 0 THEN w
    ELSE LET parm == Head(parms)
         IN  EmitShopParms(IF Len(parm) < 3 THEN w
                           ELSE emit_parm(w, Str(parm[1]),
                                          convertToString(Tail(parm))),
                           Tail(parms))

\* processShop( shader, key, writer ): without a shop name in quotes it
\* returns at once, else it writes the shader layer named shopname + "1".
processShop(r, shader, key) ==
    IF ~Running(r) \/ shader.shopname = "" THEN r
    ELSE [r EXCEPT !.w = end_shader(
              EmitShopParms(begin_shader(@, key, Str(shader.shopname),
                                         <<shader.shopname, "1">>),
                            shader.parms))]

\* The loop of wrangleMaterial over the contexts (wrangler is None): r.ret
\* counts the entries of the dictionary `shaders`.
RECURSIVE WrangleContexts(_, _, _)
WrangleContexts(r, shop, i) ==
    IF ~Running(r) \/ i > Len(ShaderContexts) THEN r
    ELSE LET context == ShaderContexts[i]
         IN  IF context \in shop.disabled
             THEN WrangleContexts(r, shop, i + 1)
             ELSE IF Len(shop.shaders[context]) = 0
             THEN WrangleContexts(r, shop, i + 1)
             ELSE LET n == r.ret
                      r1 == processShop(r, shop.shaders[context][1], context)
                  IN  WrangleContexts(Return(r1, n + 1), shop, i + 1)

\* wrangleMaterial( shopname, shop, now, writer ): the shader group of one
\* shop of theShaderList (a shop is named by its path); with more than one
\* shader it calls emit_connect_shaders( "a", "b", "c", "d" ), and
\* r.e.connects keeps the source and destination layers of that call.
wrangleMaterial(r, shopname, shop) ==
    IF ~Running(r) THEN r
    ELSE LET r1 == [r EXCEPT !.w = begin_shader_group(@, <<"/shg", shopname>>)]
             r2 == WrangleContexts(Return(r1, 0), shop, 1)
             r3 == IF Running(r2) /\ r2.ret > 1
                   THEN [r2 EXCEPT !.w = emit_connect_shaders(@),
                                   !.e.connects =
                                       Append(@, [group     |-> shopname,
                                                  src_layer |-> "a",
                                                  dst_layer |-> "c"])]
                   ELSE r2
         IN  [r3 EXCEPT !.w = end_shader_group(@)]

RECURSIVE WrangleMaterials(_, _)
WrangleMaterials(r, shops) ==
    IF Len(shops) = 0 THEN r
    ELSE WrangleMaterials(wrangleMaterial(r, Head(shops), Shops[Head(shops)]),
                          Tail(shops))

RECURSIVE EmitMaterials(_, _)
EmitMaterials(w, shops) ==
    IF Len(shops) = 0 THEN w
    ELSE LET w1 == begin_material(w, <<"/mat", Head(shops)>>,
                                  Str("osl_material"))
             w2 == emit_parm(w1, Str("osl_surface"), <<"/shg", Head(shops)>>)
             w3 == emit_parm(w2, Str("surface_shader"),
                             Str("physical_surface_shader"))
         IN  EmitMaterials(end_material(w3), Tail(shops))

\* outputMaterial: the shader groups, one surface_shader when there is any
\* shop, then the materials.
outputMaterial(r) ==
    LET r1 == WrangleMaterials(r, r.e.theShaderList)
        w2 == IF Len(r.e.theShaderList) > 0
              THEN end_surfaceshader(begin_surfaceshader(r1.w))
              ELSE r1.w
    IN  [r1 EXCEPT !.w = EmitMaterials(w2, r.e.theShaderList)]

\* outputOutput: the frame parameters of ASOutputSettings and outputParms.
outputOutput(r) ==
    [r EXCEPT !.w =
        end_output(end_frame(
            EmitParms(begin_frame(begin_output(@)),
                      <<"tile_size", "pixel_format", "filter", "filter_size",
                        "color_space", "premult_alpha", "clamping", "gamma",
                        "resolution">>)))]

\* The parameter block of outputConfig for the lighting engine.
EngineBlock(lighting_engine) ==
    IF lighting_engine = "drt" THEN "drt"
    ELSE IF lighting_engine = "pt" THEN "pt"
    ELSE "sppm"

\* outputConfig: the final configuration with the sampler block and the
\* engine block, then the empty interactive configuration.
outputConfig(r, pixel_renderer, lighting_engine) ==
    LET w1 == begin_configuration(begin_configurations(r.w), TRUE)
        w2 == EmitParms(w1, <<"passes", "pixel_renderer", "lighting_engine",
                              "override_cpu", "rendering_threads",
                              "override_mem", "texture_cache_size">>)
        w3 == end_parm(emit_parm(
                  begin_parm(w2, IF pixel_renderer = "uniform"
                                 THEN Str("uniform_pixel_renderer")
                                 ELSE Str("adaptive_pixel_renderer")),
                  Str("samples"), Str("value")))
        w4 == end_parm(emit_parm(
                  begin_parm(w3, Str(EngineBlock(lighting_engine))),
                  Str("max_bounces"), Str("value")))
        w5 == end_configuration(w4)
        w6 == end_configuration(begin_configuration(w5, FALSE))
    IN  [r EXCEPT !.w = end_configurations(w6)]

(***************************************************************************)
(* SpecRender: one run of main, from the camera lookup to the closing of   *)
(* the project file.  Each statement group of Render is one step; the      *)
(* scene is queried when the step that reads it runs.                      *)
(***************************************************************************)
\* state:time of the render
RenderNow == 3 * TicksPerFrame

\* (pixel_renderer, lighting_engine) of ASConfigSettings
ConfigChoices ==
    { <<"uniform", "drt">>, <<"adaptive", "pt">>, <<"adaptive", "sppm">> }

\* Render with the output section written before the scene is closed.
RenderOrderSwapped ==
    <<"emitHeader", "begin_project", "search_paths", "begin_scene", "camera",
      "begin_master", "lights", "group", "sub_assemblies", "instance_subs",
      "master_geometry", "master_instances", "materials", "end_master",
      "master_instance", "output", "end_scene", "config", "end_project">>

\* Render with the sub-assemblies instanced before they are written.
RenderOrderInstancesFirst ==
    <<"emitHeader", "begin_project", "search_paths", "begin_scene", "camera",
      "begin_master", "lights", "group", "instance_subs", "sub_assemblies",
      "master_geometry", "master_instances", "materials", "end_master",
      "master_instance", "end_scene", "output", "config", "end_project">>

\* The statements of Render in program order, camera branch taken.
RenderOrder ==
    <<"emitHeader", "begin_project", "search_paths", "begin_scene", "camera",
      "begin_master", "lights", "group", "sub_assemblies", "instance_subs",
      "master_geometry", "master_instances", "materials", "end_master",
      "master_instance", "end_scene", "output", "config", "end_project">>

\* The statement that follows stage in Render; "render_done" after the last.
After(stage) ==
    LET i == CHOOSE j \in 1..Len(RenderOrder) : RenderOrder[j] = stage
    IN  IF i = Len(RenderOrder) THEN "render_done" ELSE RenderOrder[i + 1]

InitRender ==
    /\ writer = NoWriter
    /\ calls = << >>
    /\ pc = "main"
    /\ scene = [hasCamera  |-> TRUE,
                now        |-> RenderNow,
                paths      |-> [k \in {"as_archivepath", "as_texturepath",
                                       "as_shaderpath"} |-> ""],
                camName    |-> "",
                lights     |-> 0,
                objectlist |-> << >>]
    /\ env = NewEnv
    /\ blur = [use |-> "none"]

\* What soho.error may do when a step is about to call it: end the script
\* or return, unless an earlier call of the run has already returned.
ErrorOutcomes(called) ==
    IF ~called \/ Len(env.errors) > 0 THEN {env.errorRaises} ELSE BOOLEAN

\* The step ends: the exception, if any, ends the run.
Finish(r, next) ==
    /\ writer' = r.w
    /\ env' = r.e
    /\ pc' = IF Running(r) THEN next ELSE "aborted"

\* main up to the creation of the writer: without a camera in the scene,
\* soho.error; if that returns, cam is still the name from the parameter
\* list and cam.evaluate raises AttributeError.
Main ==
    /\ pc = "main"
    /\ \E hasCamera \in BOOLEAN :
       \E raises \in ErrorOutcomes(~hasCamera) :
          /\ scene' = [scene EXCEPT !.hasCamera = hasCamera]
          /\ LET r0 == Run(writer, [env EXCEPT !.errorRaises = raises])
                 r1 == IF hasCamera THEN r0
                       ELSE Throw(soho_error(r0, "Unable to find viewing camera"),
                                  "AttributeError")
             IN  Finish(r1, "create_writer")
    /\ UNCHANGED <<calls, blur>>

CreateWriter ==
    /\ pc = "create_writer"
    /\ writer' = NewWriter
    /\ pc' = RenderOrder[1]
    /\ UNCHANGED <<calls, scene, env, blur>>

EmitHeader ==
    /\ pc = "emitHeader"
    /\ Finish(emitHeader(Run(writer, env)), After("emitHeader"))
    /\ UNCHANGED <<calls, scene, blur>>

BeginProject ==
    /\ pc = "begin_project"
    /\ Finish(Run(begin_project(writer), env), After("begin_project"))
    /\ UNCHANGED <<calls, scene, blur>>

SearchPaths ==
    /\ pc = "search_paths"
    /\ \E paths \in PathConfigs :
       \E raises \in ErrorOutcomes(\E k \in DOMAIN paths : paths[k] = "missing") :
          /\ scene' = [scene EXCEPT !.paths = paths]
          /\ LET r1 == getProjectPaths(
                           Run(writer, [env EXCEPT !.errorRaises = raises]),
                           paths)
                 r2 == [r1 EXCEPT !.w = emit_searchpaths(@, NumPaths(paths))]
             IN  Finish(r2, After("search_paths"))
    /\ UNCHANGED <<calls, blur>>

BeginScene ==
    /\ pc = "begin_scene"
    /\ Finish(Run(begin_scene(writer), env), After("begin_scene"))
    /\ UNCHANGED <<calls, scene, blur>>

\* mblur = SetCameraBlur(...); camName = outputCamera(...); if camName:
Camera ==
    /\ pc = "camera"
    /\ \E cam \in RenderCams, name \in CamNames :
          /\ scene' = [scene EXCEPT !.camName = name]
          /\ LET res == SetCameraBlur(cam, scene.now)
                 r0 == Run(writer,
                           [env EXCEPT
                               !.CameraTimeSteps = res.CameraTimeSteps,
                               !.GeoTimeSteps = res.GeoTimeSteps,
                               !.VelocityBlurSamples = res.VelocityBlurSamples,
                               !.mblur = res.mblur])
                 r1 == IF res.raised # "none" THEN Throw(r0, res.raised) ELSE r0
                 r2 == outputCamera(r1, name)
             IN  Finish(r2, IF r2.ret # "" THEN After("camera")
                            ELSE "camera_error")
    /\ UNCHANGED <<calls, blur>>

\* The else branch of Render: soho.error, and Render returns.
CameraError ==
    /\ pc = "camera_error"
    /\ \E raises \in ErrorOutcomes(TRUE) :
          Finish(soho_error(Run(writer, [env EXCEPT !.errorRaises = raises]),
                            "Error evaluating camera parameters"),
                 "render_done")
    /\ UNCHANGED <<calls, scene, blur>>

BeginMaster ==
    /\ pc = "begin_master"
    /\ Finish(Run(begin_assembly(writer, Str("master")), env),
              After("begin_master"))
    /\ UNCHANGED <<calls, scene, blur>>

Lights ==
    /\ pc = "lights"
    /\ \E n \in 0..MaxLights :
          /\ scene' = [scene EXCEPT !.lights = n]
          /\ Finish(OutputLights(Run(writer, env), 1, n), After("lights"))
    /\ UNCHANGED <<calls, blur>>

Group ==
    /\ pc = "group"
    /\ \E objectlist \in ObjectLists :
          /\ scene' = [scene EXCEPT !.objectlist = objectlist]
          /\ LET g == groupBlurObjects(objectlist, env.mblur, FALSE)
             IN  Finish(Run(writer, [env EXCEPT !.master = g.staticObj,
                                                !.subs = g.dynamObj]),
                        After("group"))
    /\ UNCHANGED <<calls, blur>>

SubAssembliesStep ==
    /\ pc = "sub_assemblies"
    /\ Finish(SubAssemblies(Run(writer, env), env.subs, 1),
              After("sub_assemblies"))
    /\ UNCHANGED <<calls, scene, blur>>

InstanceSubs ==
    /\ pc = "instance_subs"
    /\ Finish(instanceSubAssemblies(Run(writer, env), env.subs, 1),
              After("instance_subs"))
    /\ UNCHANGED <<calls, scene, blur>>

MasterGeometryStep ==
    /\ pc = "master_geometry"
    /\ Finish(MasterGeometry(Run(writer, [env EXCEPT !.sceneObjs = << >>]),
                             env.master, 1),
              After("master_geometry"))
    /\ UNCHANGED <<calls, scene, blur>>

MasterInstances ==
    /\ pc = "master_instances"
    /\ Finish(outputInstances(Run(writer, env), env.sceneObjs),
              After("master_instances"))
    /\ UNCHANGED <<calls, scene, blur>>

Materials ==
    /\ pc = "materials"
    /\ Finish(outputMaterial(Run(writer, env)), After("materials"))
    /\ UNCHANGED <<calls, scene, blur>>

EndMaster ==
    /\ pc = "end_master"
    /\ Finish(Run(end_assembly(writer), env), After("end_master"))
    /\ UNCHANGED <<calls, scene, blur>>

MasterInstance ==
    /\ pc = "master_instance"
    /\ Finish(instanceMasterAssembly(Run(writer, env)), After("master_instance"))
    /\ UNCHANGED <<calls, scene, blur>>

EndScene ==
    /\ pc = "end_scene"
    /\ Finish(Run(end_scene(writer), env), After("end_scene"))
    /\ UNCHANGED <<calls, scene, blur>>

Output ==
    /\ pc = "output"
    /\ Finish(outputOutput(Run(writer, env)), After("output"))
    /\ UNCHANGED <<calls, scene, blur>>

Config ==
    /\ pc = "config"
    /\ \E c \in ConfigChoices :
          Finish(outputConfig(Run(writer, env), c[1], c[2]), After("config"))
    /\ UNCHANGED <<calls, scene, blur>>

EndProject ==
    /\ pc = "end_project"
    /\ Finish(Run(end_project(writer), env), After("end_project"))
    /\ UNCHANGED <<calls, scene, blur>>

\* main after Render: the comment with the generation time.
FinalComment ==
    /\ pc = "render_done"
    /\ Finish(Run(emit_comment(writer, "Script generation time"), env), "close")
    /\ UNCHANGED <<calls, scene, blur>>

\* main: writer.close_project_file()
Close ==
    /\ pc = "close"
    /\ Finish(Run(close_project_file(writer), env), "done")
    /\ UNCHANGED <<calls, scene, blur>>

NextRender ==
    \/ Main
    \/ CreateWriter
    \/ EmitHeader
    \/ BeginProject
    \/ SearchPaths
    \/ BeginScene
    \/ Camera
    \/ CameraError
    \/ BeginMaster
    \/ Lights
    \/ Group
    \/ SubAssembliesStep
    \/ InstanceSubs
    \/ MasterGeometryStep
    \/ MasterInstances
    \/ Materials
    \/ EndMaster
    \/ MasterInstance
    \/ EndScene
    \/ Output
    \/ Config
    \/ EndProject
    \/ FinalComment
    \/ Close

SpecRender == InitRender /\ [][NextRender]_vars

(***************************************************************************)
(* SpecPartition: partitionMaterial applied to every bounded sequence of   *)
(* snapshots.  `scene` holds the input, `env` the result.                  *)
(***************************************************************************)
\* most time samples of one object
MaxSamples == 3

\* What geo.partition may find in one snapshot: the values of
\* shop_materialpath on its primitives, in the order the dictionary is
\* visited.
PartLists ==
    { <<"">>, <<"/shop/A">>, <<"", "/shop/A">>, <<"/shop/A", "">> }

InitPartition ==
    /\ writer = NoWriter
    /\ calls = << >>
    /\ pc = "partition"
    /\ \E n \in 1..MaxSamples, attr \in BOOLEAN :
       \E parts \in [1..n -> PartLists] :
           scene = [obj     |-> [attr |-> attr, parts |-> parts],
                    geoList |-> [i \in 1..n |-> i]]
    /\ env = [called |-> FALSE, splits |-> << >>]
    /\ blur = [use |-> "none"]

CallPartitionMaterial ==
    /\ pc = "partition"
    /\ ~env.called
    /\ env' = [called |-> TRUE,
               splits |-> partitionMaterial(scene.obj, scene.geoList)]
    /\ UNCHANGED <<writer, calls, pc, scene, blur>>

NextPartition == CallPartitionMaterial

SpecPartition == InitPartition /\ [][NextPartition]_vars

\* C13 (as claimed): partitionMaterial returns for every material key a
\* list with one snapshot for each time sample, the i-th from the i-th
\* sample.
C13_EveryKeyHasEverySample ==
    (pc = "partition" /\ env.called) =>
        \A k \in 1..Len(env.splits) : env.splits[k].snaps = scene.geoList

\* The number of times the snapshot geo is in the list snaps.
Occurrences(snaps, geo) ==
    Cardinality({i \in 1..Len(snaps) : snaps[i] = geo})

\* C14: partitionMaterial puts every snapshot exactly once in the partition
\* of each key it carries (and in no other), one partition for a key; and
\* without the material attribute it returns the single partition "" that
\* holds all the snapshots in their order.
C14_EachSnapshotOncePerKey ==
    (pc = "partition" /\ env.called) =>
        IF scene.obj.attr
        THEN /\ \A k, l \in 1..Len(env.splits) :
                    env.splits[k].key = env.splits[l].key => k = l
             /\ \A geo \in 1..Len(scene.geoList) :
                    LET carried == {scene.obj.parts[geo][j] :
                                       j \in 1..Len(scene.obj.parts[geo])}
                    IN  /\ \A key \in carried :
                               \E k \in 1..Len(env.splits) :
                                   /\ env.splits[k].key = key
                                   /\ Occurrences(env.splits[k].snaps, geo) = 1
                        /\ \A k \in 1..Len(env.splits) :
                               env.splits[k].key \notin carried =>
                                   Occurrences(env.splits[k].snaps, geo) = 0
        ELSE env.splits = << [key |-> "", snaps |-> scene.geoList] >>

\* C14 witness: three snapshots with the attribute, two of them carrying
\* both materials, partitioned in two.
C14_Witness ==
    /\ pc = "partition" /\ env.called
    /\ scene.obj.attr
    /\ Len(scene.geoList) = 3
    /\ scene.obj.parts = << <<"", "/shop/A">>, <<"/shop/A">>, <<"/shop/A", "">> >>
    /\ env.splits = << [key |-> "", snaps |-> <<1, 3>>],
                       [key |-> "/shop/A", snaps |-> <<1, 2, 3>>] >>

(***************************************************************************)
(* SpecShop: processShop applied to every bounded shader string, on a      *)
(* fresh writer.  `scene` holds the shader string.                         *)
(***************************************************************************)
\* most comma-separated parameter records of a shader string
MaxRecords == 3

\* The whitespace-separated tokens a parameter record may have: none, a tab
\* of the interface (one or two tokens), a name with a type and values.
RecordTokens ==
    { << >>, <<"tab">>, <<"tab", "folder">>, <<"Kd", "float", "0.5">>,
      <<"Cs", "color", "1", "0", "0">> }

InitShop ==
    /\ writer = NewWriter
    /\ calls = << >>
    /\ pc = "shop"
    /\ \E shopname \in {"", "matte"}, key \in {"surface", "displacement"} :
       \E parms \in SeqsUpTo(RecordTokens, MaxRecords) :
           scene = [shader |-> Shader(shopname, parms), key |-> key]
    /\ env = [called |-> FALSE]
    /\ blur = [use |-> "none"]

CallProcessShop ==
    /\ pc = "shop"
    /\ ~env.called
    /\ writer' = processShop(Run(writer, env), scene.shader, scene.key).w
    /\ env' = [called |-> TRUE]
    /\ UNCHANGED <<calls, pc, scene, blur>>

NextShop == CallProcessShop

SpecShop == InitShop /\ [][NextShop]_vars

IsParameter(rec) == rec.k = "leaf" /\ rec.n = "parameter"

HasThreeTokens(record) == Len(record) >= 3

ContextStates == {"empty", "disabled", "named", "unnamed"}

\* The shop whose contexts are in the given states: a populated context has
\* a shader string naming the shop after the context.
ShopWith(st) ==
    [found    |-> TRUE,
     name     |-> "/shop/M",
     disabled |-> {c \in DOMAIN st : st[c] = "disabled"},
     shaders  |-> [c \in DOMAIN st |->
                     CASE st[c] = "empty" -> << >>
                       [] st[c] = "unnamed" -> <<Shader("", << >>)>>
                       [] OTHER ->
                            <<Shader(c, << <<"Kd", "float", "0.5">> >>)>>]]

InitWrangle ==
    /\ writer = NewWriter
    /\ calls = << >>
    /\ pc = "wrangle"
    /\ \E st \in [{"surface", "displacement", "volume"} -> ContextStates] :
          scene = [shop |-> ShopWith(st), st |-> st]
    /\ env = [called |-> FALSE, e |-> NewEnv]
    /\ blur = [use |-> "none"]

CallWrangleMaterial ==
    /\ pc = "wrangle"
    /\ ~env.called
    /\ LET r == wrangleMaterial(Run(writer, env.e), scene.shop.name, scene.shop)
       IN  /\ writer' = r.w
           /\ env' = [called |-> TRUE, e |-> r.e]
    /\ UNCHANGED <<calls, pc, scene, blur>>

NextWrangle == CallWrangleMaterial

SpecWrangle == InitWrangle /\ [][NextWrangle]_vars

\* The contexts of the shop that are not disabled and have a shader string.
PopulatedContexts ==
    {c \in DOMAIN scene.st : scene.st[c] \in {"named", "unnamed"}}

IsLayer(rec) == rec.k = "begin" /\ rec.n = "shader"

IsConnection(rec) == rec.n = "connect_shaders"

\* C21 (as claimed): wrangleMaterial writes begin shader group, one shader
\* layer for each context that is not disabled and has a non-empty shader
\* string, connection records if and only if there is more than one layer,
\* and end shader group last, for every combination of contexts.
C21_ShaderGroupSequence ==
    (pc = "wrangle" /\ env.called) =>
        LET out == writer.out
            layers == Len(SelectSeq(out, IsLayer))
            connections == Len(SelectSeq(out, IsConnection))
        IN  /\ writer.raised = "none"
            /\ out[2].k = "begin" /\ out[2].n = "shader_group"
            /\ layers = Cardinality(PopulatedContexts)
            /\ connections > 0 <=> layers > 1
            /\ \E i \in 3..Len(out) :
                  /\ out[i].k = "end" /\ out[i].n = "shader_group"
                  /\ \A j \in (i + 1)..Len(out) :
                        out[j].k \notin {"begin", "end", "leaf"}
            /\ writer.tags_stack = << >>

InitParse ==
    /\ writer = NewWriter
    /\ calls = << >>
    /\ pc = "parse"
    /\ \E obj \in ObjCatalogue, cam \in CamMotionParms :
          /\ SetCameraBlur(cam, RenderNow).raised = "none"
          /\ scene = [now   |-> RenderNow,
                      paths |-> [k \in {"as_archivepath", "as_texturepath",
                                        "as_shaderpath"} |-> ""],
                      obj   |-> obj,
                      cam   |-> cam]
          /\ LET res == SetCameraBlur(cam, RenderNow)
             IN  env = [called |-> FALSE,
                        ret    |-> [ok |-> FALSE, parts |-> << >>],
                        e      |-> [NewEnv EXCEPT
                                      !.CameraTimeSteps = res.CameraTimeSteps,
                                      !.GeoTimeSteps = res.GeoTimeSteps,
                                      !.VelocityBlurSamples =
                                          res.VelocityBlurSamples,
                                      !.mblur = res.mblur]]
    /\ blur = [use |-> "none"]

CallParseGeoObject ==
    /\ pc = "parse"
    /\ ~env.called
    /\ LET r == parseGeoObject(Run(writer, env.e), scene.obj,
                               <<scene.obj.name, "-geo">>)
       IN  /\ writer' = r.w
           /\ env' = [called |-> TRUE, ret |-> r.ret, e |-> r.e]
    /\ UNCHANGED <<calls, pc, scene, blur>>

NextParse == CallParseGeoObject

SpecParse == InitParse /\ [][NextParse]_vars

\* The two velocity-blur samples for the camera of the scene: the shutter
\* plus half a frame times (shutteroffset - 1) and (shutteroffset + 1).
VelocitySamplesOf(cam) ==
    << cam.shutter + (TicksPerFrame * (cam.shutteroffset - 1)) \div 2,
       cam.shutter + (TicksPerFrame * (cam.shutteroffset + 1)) \div 2 >>

\* C17: for an object with geo_velocityblur set whose geometry has the
\* point attribute v of vector size 3, parseGeoObject saves, for every
\* partition, one snapshot for each of the two velocity-blur samples (the
\* geometry at now, written with that sample), whatever the number of
\* stepped geometry time samples.
C17_VelocityBlurUsesTwoSamples ==
    (/\ pc = "parse" /\ env.called
     /\ scene.obj.gblur # 0 /\ scene.obj.handle /\ scene.obj.v = "3")
        => /\ env.ret.ok
           /\ Len(env.ret.parts) > 0
           /\ \A k \in 1..Len(env.ret.parts) : Len(env.ret.parts[k].files) = 2
           /\ Len(env.e.files) = 2 * Len(env.ret.parts)
           /\ \A i \in 1..Len(env.e.files) :
                 /\ env.e.files[i].geo = 1
                 /\ env.e.files[i].time
                      = VelocitySamplesOf(scene.cam)[((i - 1) % 2) + 1]

\* C17 witness: the object with velocity blur parsed when there are four
\* stepped geometry time samples.
C17_Witness ==
    /\ pc = "parse" /\ env.called
    /\ scene.obj.name = "spray"
    /\ Len(env.e.GeoTimeSteps) = 4
    /\ Len(env.e.files) = 2
    /\ env.e.files[1].time # env.e.files[2].time

\* C25 (as claimed): for an object with geo_velocityblur set whose point
\* attribute v has a vector size other than 3, parseGeoObject saves, for
\* every partition, one snapshot for each stepped geometry time sample,
\* written with that sample, and not the two velocity-blur samples.
C25_InvalidVelocityUsesGeoSteps ==
    (/\ pc = "parse" /\ env.called
     /\ scene.obj.gblur # 0 /\ scene.obj.handle
     /\ scene.obj.v \notin {"none", "3"})
        => /\ env.ret.ok
           /\ \A k \in 1..Len(env.ret.parts) :
                 Len(env.ret.parts[k].files) = Len(env.e.GeoTimeSteps)
           /\ \A i \in 1..Len(env.e.files) :
                 /\ env.e.files[i].geo
                      = ((i - 1) % Len(env.e.GeoTimeSteps)) + 1
                 /\ env.e.files[i].time
                      = env.e.GeoTimeSteps[((i - 1) % Len(env.e.GeoTimeSteps))
                                               + 1]

(***************************************************************************)
(* SpecGeometry: outputGeometry applied, on a fresh writer, to every       *)
(* object of the catalogue after SetCameraBlur has set the time samples    *)
(* for a bounded camera setting.  `scene` holds the object and the camera, *)
(* `env` the globals and the value returned.                               *)
(***************************************************************************)
InitGeometry ==
    /\ writer = NewWriter
    /\ calls = << >>
    /\ pc = "geometry"
    /\ \E obj \in ObjCatalogue, cam \in CamMotionParms :
          /\ SetCameraBlur(cam, RenderNow).raised = "none"
          /\ scene = [now   |-> RenderNow,
                      paths |-> [k \in {"as_archivepath", "as_texturepath",
                                        "as_shaderpath"} |-> ""],
                      obj   |-> obj,
                      cam   |-> cam]
          /\ LET res == SetCameraBlur(cam, RenderNow)
             IN  env = [called |-> FALSE,
                        ret    |-> [ok |-> FALSE, instances |-> << >>],
                        e      |-> [NewEnv EXCEPT
                                      !.CameraTimeSteps = res.CameraTimeSteps,
                                      !.GeoTimeSteps = res.GeoTimeSteps,
                                      !.VelocityBlurSamples =
                                          res.VelocityBlurSamples,
                                      !.mblur = res.mblur]]
    /\ blur = [use |-> "none"]

CallOutputGeometry ==
    /\ pc = "geometry"
    /\ ~env.called
    /\ LET r == outputGeometry(Run(writer, env.e), scene.obj)
       IN  /\ writer' = r.w
           /\ env' = [called |-> TRUE, ret |-> r.ret, e |-> r.e]
    /\ UNCHANGED <<calls, pc, scene, blur>>

NextGeometry == CallOutputGeometry

SpecGeometry == InitGeometry /\ [][NextGeometry]_vars

\* The material partitions of the snapshots of the object of the scene.
PartitionsOfObject ==
    partitionMaterial(scene.obj, GeoSamples(Run(NewWriter, env.e),
                                            scene.obj).geoList)

IsObject(rec) == rec.k = "begin" /\ rec.n = "object"

\* The index in the document of the k-th object definition.
ObjectAt(k) ==
    CHOOSE i \in 1..Len(writer.out) :
        /\ IsObject(writer.out[i])
        /\ Cardinality({j \in 1..i : IsObject(writer.out[j])}) = k

\* The archive file number n (from 0) of partition number k (from 1).
ArchivePath(k, n) ==
    <<"hip", "/", scene.obj.name, "-geo", "-mat">> \o IntStr(k - 1)
        \o <<"_">> \o IntStr(n)

\* C23: outputGeometry writes exactly one object definition for each
\* material partition of the object; it holds the single parameter
\* filename when the partition has one snapshot, else one parameter block
\* filename with one entry for each snapshot, named 0..n-1 in the order of
\* the snapshots.
C23_OneObjectPerPartition ==
    (pc = "geometry" /\ env.called /\ env.ret.ok) =>
        LET out == writer.out
            partGeo == PartitionsOfObject
        IN  /\ writer.raised = "none"
            /\ Len(SelectSeq(out, IsObject)) = Len(partGeo)
            /\ \A k \in 1..Len(partGeo) :
                  LET at == ObjectAt(k)
                      n == Len(partGeo[k].snaps)
                  IN  /\ out[at].a = <<scene.obj.name, "-geo", "_">>
                                         \o IntStr(k - 1)
                      /\ IF n = 1
                         THEN /\ IsParameter(out[at + 1])
                              /\ out[at + 1].a = <<"filename">>
                              /\ out[at + 1].b = ArchivePath(k, 0)
                              /\ out[at + 2].k = "end"
                              /\ out[at + 2].n = "object"
                         ELSE /\ out[at + 1].k = "begin"
                              /\ out[at + 1].n = "parameters"
                              /\ out[at + 1].a = <<"filename">>
                              /\ \A i \in 1..n :
                                    /\ IsParameter(out[at + 1 + i])
                                    /\ out[at + 1 + i].a = IntStr(i - 1)
                                    /\ out[at + 1 + i].b = ArchivePath(k, i - 1)
                              /\ out[at + n + 2].k = "end"
                              /\ out[at + n + 2].n = "parameters"
                              /\ out[at + n + 3].k = "end"
                              /\ out[at + n + 3].n = "object"

\* C23 witness: an object with two partitions, one of two snapshots and one
\* of a single snapshot, written as a block of two entries and as a single
\* parameter.
C23_Witness ==
    /\ pc = "geometry" /\ env.called /\ env.ret.ok
    /\ scene.obj.name = "cloth"
    /\ Len(PartitionsOfObject) = 2
    /\ Len(PartitionsOfObject[1].snaps) = 2
    /\ Len(PartitionsOfObject[2].snaps) = 1
    /\ writer.out[ObjectAt(1) + 1].n = "parameters"
    /\ writer.out[ObjectAt(1) + 3].a = <<"1">>
    /\ writer.out[ObjectAt(2) + 1].a = <<"filename">>
    /\ IsParameter(writer.out[ObjectAt(2) + 1])

(***************************************************************************)
(* SpecGroup: groupBlurObjects applied to every bounded object list, with  *)
(* and without motion blur and ipr.  `scene` holds the arguments, `env`    *)
(* the value returned.                                                     *)
(***************************************************************************)
\* longest object list handed to groupBlurObjects
MaxGroup == 3

InitGroup ==
    /\ writer = NoWriter
    /\ calls = << >>
    /\ pc = "group"
    /\ \E objectlist \in SeqsUpTo(ObjCatalogue, MaxGroup) :
       \E mblur \in BOOLEAN, ipr \in BOOLEAN :
           scene = [objectlist |-> objectlist, mblur |-> mblur, ipr |-> ipr]
    /\ env = [called |-> FALSE, ret |-> << >>]
    /\ blur = [use |-> "none"]

CallGroupBlurObjects ==
    /\ pc = "group"
    /\ ~env.called
    /\ env' = [called |-> TRUE,
               ret    |-> groupBlurObjects(scene.objectlist, scene.mblur,
                                           scene.ipr)]
    /\ UNCHANGED <<writer, calls, pc, scene, blur>>

NextGroup == CallGroupBlurObjects

SpecGroup == InitGroup /\ [][NextGroup]_vars

\* The number of entries of the list that are the object.
TimesIn(list, obj) == Cardinality({i \in 1..Len(list) : list[i] = obj})

\* The distinct objects of the object list.
ListedObjects == {scene.objectlist[i] : i \in 1..Len(scene.objectlist)}

\* C24 (as claimed): groupBlurObjects creates no record for an object
\* without source-geometry path and one record for every other distinct
\* object of the list, in exactly one of the static and dynamic lists: the
\* dynamic one exactly when the object is time dependent and motion blur is
\* active.
C24_OneRecordInOneList ==
    (pc = "group" /\ env.called) =>
        /\ env.ret.staticObj # None
        /\ \A obj \in ListedObjects :
              LET static == TimesIn(env.ret.staticObj, obj)
                  dynamic == TimesIn(env.ret.dynamObj, obj)
              IN  /\ static + dynamic = IF obj.soppath = "" THEN 0 ELSE 1
                  /\ dynamic = 1 <=> (obj.soppath # "" /\ obj.xblur
                                         /\ scene.mblur)

\* C24 (amended): the same when ipr is false; with ipr the static list is
\* None and every distinct object with a source-geometry path has its one
\* record in the dynamic list.
C24_OneRecordInOneListUnlessIpr ==
    (pc = "group" /\ env.called) =>
        /\ \A i \in 1..Len(env.ret.dynamObj) :
              env.ret.dynamObj[i] \in ListedObjects
        /\ IF scene.ipr
           THEN /\ env.ret.staticObj = None
                /\ \A obj \in ListedObjects :
                      TimesIn(env.ret.dynamObj, obj)
                          = IF obj.soppath = "" THEN 0 ELSE 1
           ELSE /\ \A i \in 1..Len(env.ret.staticObj) :
                      env.ret.staticObj[i] \in ListedObjects
                /\ \A obj \in ListedObjects :
                      LET static == TimesIn(env.ret.staticObj, obj)
                          dynamic == TimesIn(env.ret.dynamObj, obj)
                      IN  /\ static + dynamic
                                = IF obj.soppath = "" THEN 0 ELSE 1
                          /\ dynamic = 1 <=> (obj.soppath # "" /\ obj.xblur
                                                 /\ scene.mblur)

\* C24 witness: a time dependent object listed twice around an object
\* without source-geometry path, with motion blur: one dynamic record.
C24_Witness ==
    /\ pc = "group" /\ env.called
    /\ ~scene.ipr /\ scene.mblur
    /\ Len(scene.objectlist) = 3
    /\ scene.objectlist[1] = scene.objectlist[3]
    /\ scene.objectlist[1].name = "mover"
    /\ scene.objectlist[2].name = "null"
    /\ Len(env.ret.dynamObj) = 1
    /\ env.ret.staticObj = << >>

(***************************************************************************)
(* SpecCaches: two renders in one process with a reset between them, as    *)
(* far as the process-scoped state goes: the calls of getMaterial a render *)
(* makes for its objects, then outputMaterial; clearCaches; and the same   *)
(* again on a new writer.  `env` holds the module globals (e), the class   *)
(* attributes of SceneObject (caches), the shops the second render has     *)
(* asked for (refs) and the number of getMaterial calls of the render.     *)
(***************************************************************************)
\* most getMaterial calls of one render
MaxGets == 2

\* SceneObject._sopCache, _shaderCache, _instanceCache: nothing in the
\* module ever appends to them.
SceneObjectCaches ==
    [_sopCache |-> << >>, _shaderCache |-> << >>, _instanceCache |-> << >>]

\* SceneObject.clearCaches: its three assignments bind names local to the
\* function, the class attributes and the module globals are untouched.
clearCaches(state) == state

InitCaches ==
    /\ writer = NewWriter
    /\ calls = << >>
    /\ pc = "render1"
    /\ scene = [use |-> "none"]
    /\ env = [e |-> NewEnv, caches |-> SceneObjectCaches, refs |-> {},
              gets |-> 0]
    /\ blur = [use |-> "none"]

\* parseGeoObject asks for the material of a partition.
GetMaterialCall(path) ==
    /\ pc \in {"render1", "render2"}
    /\ env.gets < MaxGets
    /\ LET r == getMaterial(Run(writer, env.e), path)
       IN  /\ writer' = r.w
           /\ env' = [env EXCEPT !.e = r.e,
                                 !.refs = IF pc = "render2" THEN @ \cup {path}
                                          ELSE @,
                                 !.gets = @ + 1]
    /\ UNCHANGED <<calls, pc, scene, blur>>

\* Render writes the materials; the render is over.
OutputMaterialCall ==
    /\ pc \in {"render1", "render2"}
    /\ LET r == outputMaterial(Run(writer, env.e))
       IN  /\ writer' = r.w
           /\ env' = [env EXCEPT !.e = r.e]
    /\ pc' = IF pc = "render1" THEN "between" ELSE "finished"
    /\ UNCHANGED <<calls, scene, blur>>

\* The reset between the renders, and the writer main creates for the
\* second one.
ClearCaches ==
    /\ pc = "between"
    /\ env' = [clearCaches(env) EXCEPT !.gets = 0]
    /\ writer' = NewWriter
    /\ pc' = "render2"
    /\ UNCHANGED <<calls, scene, blur>>

NextCaches ==
    \/ \E path \in DOMAIN Shops : GetMaterialCall(path)
    \/ OutputMaterialCall
    \/ ClearCaches

SpecCaches == InitCaches /\ [][NextCaches]_vars

\* C18 (as claimed): after clearCaches the three caches are empty, and the
\* second of two renders with the reset between them writes no shader
\* group and no material that only the first render referenced.
C18_SecondRenderForgetsFirst ==
    pc \in {"render2", "finished"} =>
        /\ env.caches = SceneObjectCaches
        /\ env.gets = 0 => env.e.theShaderList = << >>
        /\ \A i \in 1..Len(writer.out) :
              (writer.out[i].k = "begin"
                    /\ writer.out[i].n \in {"material", "shader_group"})
                 => \E path \in env.refs :
                        /\ Shops[path].found
                        /\ writer.out[i].a[2] = Shops[path].name

(***************************************************************************)
(* SpecDS: a sequence of addParm calls on a new OslShaderDS.  `env` holds  *)
(* the object: Parms as the parameter list of every page (the top level is *)
(* the page << >>, a tab the page of its path), ParmNames and what was     *)
(* written to stderr.  `calls` logs the calls.                             *)
(***************************************************************************)
\* most addParm calls on one OslShaderDS
MaxAdds == 3

\* The names of the parameters added.
ParmNameSet == {"Kd", "Ks"}

\* The tab argument: None, or the path of the tab.
TabArgs == {<<"None">>, <<"Main">>, <<"Main", "More">>}

\* OslShaderDS.__init__: Parms = (list(), dict()), ParmNames = {}.
OslShaderDS ==
    [Parms     |-> [page \in {<< >>} |-> << >>],
     ParmNames |-> {},
     stderr    |-> << >>]

\* The pages the loop over the tab path creates: every prefix of the path
\* that is not there yet, with an empty list.
WithPages(Parms, tab) ==
    [page \in DOMAIN Parms \cup {SubSeq(tab, 1, n) : n \in 1..Len(tab)} |->
        IF page \in DOMAIN Parms THEN Parms[page] ELSE << >>]

\* OslShaderDS.addParm( parm, tab ): a name ParmNames has is reported on
\* stderr, any other parameter is appended to the top level or to the page
\* of the tab.  Nothing is ever entered in ParmNames.
addParm(ds, parm, tab) ==
    IF parm \in ds.ParmNames
    THEN [ds EXCEPT !.stderr = Append(@, <<"Duplicate parameter name", parm>>)]
    ELSE IF tab = <<"None">>
    THEN [ds EXCEPT !.Parms[<< >>] = Append(@, parm)]
    ELSE [ds EXCEPT !.Parms = [WithPages(@, tab) EXCEPT ![tab] = Append(@, parm)]]

InitDS ==
    /\ writer = NoWriter
    /\ calls = << >>
    /\ pc = "ds"
    /\ scene = [use |-> "none"]
    /\ env = OslShaderDS
    /\ blur = [use |-> "none"]

CallAddParm(parm, tab) ==
    /\ pc = "ds"
    /\ Len(calls) < MaxAdds
    /\ env' = addParm(env, parm, tab)
    /\ calls' = Append(calls, [op |-> "addParm", name |-> parm, tab |-> tab])
    /\ UNCHANGED <<writer, pc, scene, blur>>

NextDS == \E parm \in ParmNameSet, tab \in TabArgs : CallAddParm(parm, tab)

SpecDS == InitDS /\ [][NextDS]_vars

\* How many times the pages of Parms hold the parameter name.
RECURSIVE StoredTimes(_, _, _)
StoredTimes(Parms, pages, parm) ==
    IF pages = {} THEN 0
    ELSE LET page == CHOOSE q \in pages : TRUE
         IN  Cardinality({i \in 1..Len(Parms[page]) : Parms[page][i] = parm})
                 + StoredTimes(Parms, pages \ {page}, parm)

\* C29 (as claimed): after any sequence of addParm calls no parameter name
\* is stored twice, at the top level and in the tabs together, and every
\* call but the first for a name is reported as a duplicate.
C29_NoDuplicateParmNames ==
    pc = "ds" =>
        /\ \A parm \in ParmNameSet :
              StoredTimes(env.Parms, DOMAIN env.Parms, parm) <= 1
        /\ Len(env.stderr)
             = Len(calls) - Cardinality({calls[i].name : i \in 1..Len(calls)})

(***************************************************************************)
(* SpecOslInfo: parseOslInfo on every bounded output of oslinfo, one step  *)
(* of its loops at a time.  `scene` holds the lines read (the header and   *)
(* the lines that follow it, each by its first word: the quoted name of a  *)
(* declaration, Default, or metadata:), `env` the locals of the function.  *)
(***************************************************************************)
\* most lines after the header line
MaxLines == 4

\* The first words of the lines after the header: two parameter names and
\* the two words that continue a parameter block.
LineWords == {"Kd", "Ks", "Default", "metadata:"}

IsDeclaration(word) == word \notin {"Default", "metadata:"}

InitOslInfo ==
    /\ writer = NoWriter
    /\ calls = << >>
    /\ pc = "header"
    /\ \E body \in SeqsUpTo(LineWords, MaxLines) :
          scene = [lines |-> <<"surface">> \o body]
    /\ env = [count |-> 0, length |-> 0, parmlist |-> << >>,
              tempparm |-> None, raised |-> "none"]
    /\ blur = [use |-> "none"]

\* lines[ count ], the list indexed from 0.
LineAt(count) == scene.lines[count + 1]

\* Up to the outer loop: the shader type and name are read from lines[0],
\* length = len( lines ) - 1, count = 1.
ParseHeader ==
    /\ pc = "header"
    /\ env' = [env EXCEPT !.length = Len(scene.lines) - 1, !.count = 1]
    /\ pc' = "outer"
    /\ UNCHANGED <<writer, calls, scene, blur>>

\* The end of an iteration of the outer loop: break when count > length,
\* else count += 1.
EndOfIteration(e) ==
    IF e.count > e.length
    THEN /\ env' = e
         /\ pc' = "returned"
    ELSE /\ env' = [e EXCEPT !.count = @ + 1]
         /\ pc' = "outer"

\* The head of an iteration of the outer loop: lines[ count ] raises
\* IndexError past the last line; a declaration starts a new tempparm and
\* enters the inner loop; a metadata line assigns to tempparm, a local not
\* yet bound when no declaration was read; a Default line does nothing.
OuterLoop ==
    /\ pc = "outer"
    /\ IF env.count > env.length
       THEN /\ env' = [env EXCEPT !.raised = "IndexError"]
            /\ pc' = "raised"
       ELSE IF IsDeclaration(LineAt(env.count))
       THEN /\ env' = [env EXCEPT !.tempparm = LineAt(env.count)]
            /\ pc' = "inner"
       ELSE IF LineAt(env.count) = "metadata:" /\ env.tempparm = None
       THEN /\ env' = [env EXCEPT !.raised = "UnboundLocalError"]
            /\ pc' = "raised"
       ELSE EndOfIteration(env)
    /\ UNCHANGED <<writer, calls, scene, blur>>

\* After the inner loop the parameter joins parmlist and the iteration of
\* the outer loop ends.
EndOfParameter(e) ==
    EndOfIteration([e EXCEPT !.parmlist = Append(@, e.tempparm)])

\* One iteration of the inner loop: count += 1; past the last line, break;
\* a Default or metadata line is read into tempparm; any other line ends
\* the loop and count moves one line back.
InnerLoop ==
    /\ pc = "inner"
    /\ LET next == env.count + 1
       IN  IF next > env.length
           THEN EndOfParameter([env EXCEPT !.count = next])
           ELSE IF ~IsDeclaration(LineAt(next))
           THEN /\ env' = [env EXCEPT !.count = next]
                /\ pc' = "inner"
           ELSE EndOfParameter([env EXCEPT !.count = next - 1])
    /\ UNCHANGED <<writer, calls, scene, blur>>

NextOslInfo ==
    \/ ParseHeader
    \/ OuterLoop
    \/ InnerLoop

SpecOslInfo == InitOslInfo /\ [][NextOslInfo]_vars

\* The lines after the header.
BodyLines == Tail(scene.lines)

\* The lines after the header are parameter blocks: none, or the first of
\* them is a declaration.
ParameterBlocks ==
    Len(BodyLines) = 0 \/ IsDeclaration(BodyLines[1])

\* C30 (as claimed): for a header line followed by parameter blocks,
\* parseOslInfo ends by returning, and the parmlist returned holds the
\* declared parameters once each in the order of the output.
C30_ParmlistInOutputOrder ==
    (ParameterBlocks /\ pc \in {"returned", "raised"}) =>
        /\ pc = "returned"
        /\ env.parmlist = SelectSeq(BodyLines, IsDeclaration)

(***************************************************************************)
(* SpecWriter: a fresh writer driven by any sequence of at most MaxCalls   *)
(* of its operations, ended by close_project_file.                         *)
(***************************************************************************)
Call(op, name) == [op |-> op, name |-> name]

\* Values of the variables a specification does not use.
Idle == [use |-> "none"]

InitWriter ==
    /\ writer = NewWriter
    /\ calls = << >>
    /\ pc = "writer"
    /\ scene = Idle
    /\ env = Idle
    /\ blur = Idle

\* The caller may make another call: the file is open, nothing was raised.
CanCall ==
    /\ pc = "writer"
    /\ Len(calls) < MaxCalls
    /\ writer.closed = 0
    /\ Ok(writer)

BeginTag(name) ==
    /\ CanCall
    /\ writer' = _begin_tag(writer, name, Str0, Str0)
    /\ calls' = Append(calls, Call("begin", name))
    /\ UNCHANGED <<pc, scene, env, blur>>

EndTag(name) ==
    /\ CanCall
    /\ writer' = _end_tag(writer, name)
    /\ calls' = Append(calls, Call("end", name))
    /\ UNCHANGED <<pc, scene, env, blur>>

EmitParm ==
    /\ CanCall
    /\ writer' = emit_parm(writer, Str("name"), Str("value"))
    /\ calls' = Append(calls, Call("parm", "name"))
    /\ UNCHANGED <<pc, scene, env, blur>>

EmitComment(msg) ==
    /\ CanCall
    /\ writer' = emit_comment(writer, msg)
    /\ calls' = Append(calls, Call("comment", msg))
    /\ UNCHANGED <<pc, scene, env, blur>>

BeginConfiguration(final) ==
    /\ CanCall
    /\ writer' = begin_configuration(writer, final)
    /\ calls' = Append(calls, Call("begin_configuration",
                                   IF final THEN "final" ELSE "interactive"))
    /\ UNCHANGED <<pc, scene, env, blur>>

EndConfiguration ==
    /\ CanCall
    /\ writer' = end_configuration(writer)
    /\ calls' = Append(calls, Call("end_configuration", ""))
    /\ UNCHANGED <<pc, scene, env, blur>>

BeginColor ==
    /\ CanCall
    /\ writer' = begin_color(writer)
    /\ calls' = Append(calls, Call("begin_color", "color"))
    /\ UNCHANGED <<pc, scene, env, blur>>

CloseProjectFile ==
    /\ pc = "writer"
    /\ writer.closed = 0
    /\ Ok(writer)
    /\ writer' = close_project_file(writer)
    /\ UNCHANGED <<calls, pc, scene, env, blur>>

NextWriter ==
    \/ \E name \in TagNames : BeginTag(name)
    \/ \E name \in TagNames : EndTag(name)
    \/ EmitParm
    \/ \E msg \in CommentArgs : EmitComment(msg)
    \/ \E final \in BOOLEAN : BeginConfiguration(final)
    \/ EndConfiguration
    \/ BeginColor
    \/ CloseProjectFile

SpecWriter == InitWriter /\ [][NextWriter]_vars

(***************************************************************************)
(* Properties of the writer.                                               *)
(***************************************************************************)
\* The number of entries of the error log that equal msg.
RECURSIVE CountMsg(_, _)
CountMsg(log, msg) ==
    IF Len(log) = 0 THEN 0
    ELSE (IF log[Len(log)] = msg THEN 1 ELSE 0)
         + CountMsg(SubSeq(log, 1, Len(log) - 1), msg)

\* What a sequence of calls leaves open when every end call has to name the
\* tag opened last: the open names, or "bad" after an end call that does not.
RECURSIVE OpenAfter(_)
OpenAfter(cs) ==
    IF Len(cs) = 0 THEN << >>
    ELSE LET before == OpenAfter(SubSeq(cs, 1, Len(cs) - 1))
             c == cs[Len(cs)]
         IN  IF before = <<"bad">> THEN before
             ELSE IF c.op = "begin" THEN Append(before, c.name)
             ELSE IF c.op = "end"
                  THEN IF Len(before) > 0 /\ before[Len(before)] = c.name
                       THEN SubSeq(before, 1, Len(before) - 1)
                       ELSE <<"bad">>
             ELSE before

\* Every opened tag was closed by an end call of its own name, last opened
\* first closed, and none is left open.
Balanced(cs) == OpenAfter(cs) = << >>

OnlyTagCalls == \A i \in 1..Len(calls) : calls[i].op \in {"begin", "end"}

\* C1 (as claimed): in every reachable state of the writer the indentation
\* level equals the number of tags on the open-tag stack.
C1_IndentEqualsStackDepth ==
    pc = "writer" => writer.indent_level = Len(writer.tags_stack)

\* C2 (as claimed): after any sequence of beginTag/endTag calls the depth
\* is zero iff every opened tag was closed by an endTag of its own name in
\* last-opened-first-closed order.
C2_ZeroIffBalanced ==
    (pc = "writer" /\ OnlyTagCalls)
        => (writer.indent_level = 0 <=> Balanced(calls))

\* C2 (amended): after any sequence of beginTag/endTag calls the depth is
\* zero with no error reported iff every opened tag was closed by an endTag
\* of its own name in last-opened-first-closed order.
C2_ZeroNoErrorIffBalanced ==
    (pc = "writer" /\ OnlyTagCalls)
        => ((writer.indent_level = 0 /\ writer.errors = << >>)
                <=> Balanced(calls))

\* C2 witness: a tag opened inside another, both closed in order.
C2_Witness ==
    /\ pc = "writer"
    /\ Len(calls) = 4
    /\ calls[1].op = "begin" /\ calls[2].op = "begin"
    /\ calls[1].name # calls[2].name
    /\ Balanced(calls)
    /\ writer.indent_level = 0

\* The step is an endTag(name) call made when name is not the top of the
\* open-tag stack.
MismatchedEndTag(name) ==
    /\ pc = "writer"
    /\ calls' = Append(calls, Call("end", name))
    /\ Len(writer.tags_stack) > 0
    /\ writer.tags_stack[Len(writer.tags_stack)] # name

C4_IndentNeverNegative ==
    pc = "writer" => writer.indent_level >= 0

\* C19 (as claimed): emit_comment writes one comment line when its text is
\* non-empty and nothing when the text is empty or absent; either way the
\* open-tag stack and the indentation level stay as they were.
C19_CommentIffNonEmpty ==
    [][\A msg \in CommentArgs :
          (pc = "writer" /\ calls' = Append(calls, Call("comment", msg))) =>
              /\ IF msg \notin {"None", ""}
                 THEN /\ Len(writer'.out) = Len(writer.out) + 1
                      /\ writer'.out[Len(writer'.out)].k = "comment"
                      /\ SubSeq(writer'.out, 1, Len(writer.out)) = writer.out
                 ELSE writer'.out = writer.out
              /\ writer'.tags_stack = writer.tags_stack
              /\ writer'.indent_level = writer.indent_level]_vars

\* C28 (as claimed): begin_color opens a color tag as every other begin
\* operation does: it pushes color on the open-tag stack, writes the tag
\* and increases the indentation level, and the begin-tag operation of the
\* writer stays usable.
C28_BeginColorOpensTag ==
    [][(pc = "writer" /\ calls' = Append(calls, Call("begin_color", "color")))
          => /\ writer'.tags_stack = Append(writer.tags_stack, "color")
             /\ writer'.indent_level = writer.indent_level + 1
             /\ Len(writer'.out) = Len(writer.out) + 1
             /\ writer'.begin_tag_attr = "method"]_vars

(***************************************************************************)
(* Properties of main and Render.                                          *)
(***************************************************************************)
\* The run of main is over: it returned, or an exception ended it.
Ended == pc \in {"done", "aborted"}

\* main created the writer (its constructor wrote the XML declaration).
WriterCreated == Len(writer.out) > 0

\* The number of opening tags `name` in the document.
CountBegin(out, name) ==
    Cardinality({i \in 1..Len(out) :
                    out[i].k = "begin" /\ out[i].n = name})

\* The document is complete: the project tag was opened, the last tag
\* written closes it, and no tag is left open.
DocumentComplete ==
    /\ CountBegin(writer.out, "project") = 1
    /\ \E i \in 1..Len(writer.out) :
          /\ writer.out[i].k = "end" /\ writer.out[i].n = "project"
          /\ \A j \in (i + 1)..Len(writer.out) :
                 writer.out[j].k \notin {"begin", "end", "leaf"}
    /\ Len(writer.tags_stack) = 0

\* C5 (as claimed): in every ended run of main in which the writer was
\* created, close_project_file was called exactly once.
C5_ClosedExactlyOnce ==
    (Ended /\ WriterCreated) => writer.closed = 1

\* The stage of the document a written record belongs to, from its tag and
\* its depth: 1 header comments, 2 begin project, 3 search paths, 4 begin
\* scene, 5 camera, 6 begin master assembly, 7 lights, 8 sub-assemblies and
\* their instances, 9 static objects of the master assembly and their
\* instances, 10 shader groups and materials, 11 end master assembly,
\* 12 master-assembly instance, 13 end scene, 14 output, 15 configurations,
\* 16 end project; 0 for the content of a tag and for the comment of main.
Stage(rec) ==
    CASE rec.k = "comment" ->
            IF rec.ind = 0 /\ rec.a # Str("Script generation time")
            THEN 1 ELSE 0
      [] rec.k \notin {"begin", "end", "leaf", "text"} -> 0
      [] rec.n = "project" -> IF rec.k = "begin" THEN 2 ELSE 16
      [] rec.n \in {"search_paths", "search_path"} -> 3
      [] rec.n = "scene" -> IF rec.k = "begin" THEN 4 ELSE 13
      [] rec.n = "camera" -> 5
      [] rec.n = "assembly" ->
            IF rec.ind > 2 THEN 8 ELSE IF rec.k = "begin" THEN 6 ELSE 11
      [] rec.n = "light" -> 7
      [] rec.n = "assembly_instance" -> IF rec.ind > 2 THEN 8 ELSE 12
      [] rec.n \in {"object", "object_instance"} ->
            IF rec.ind > 3 THEN 8 ELSE 9
      [] rec.n \in {"shader_group", "shader", "surface_shader", "material"} -> 10
      [] rec.n \in {"output", "frame"} -> 14
      [] rec.n \in {"configurations", "configuration", "/configuration"} -> 15
      [] OTHER -> 0

\* A record that belongs to a stage.
Staged(n) == n # 0

\* No record of the document belongs to an earlier stage than the staged
\* record before it.
StagesOrdered(out) ==
    LET stages == SelectSeq([i \in 1..Len(out) |-> Stage(out[i])], Staged)
    IN  \A i \in 1..(Len(stages) - 1) : stages[i] <= stages[i + 1]

HasStage(n) == \E i \in 1..Len(writer.out) : Stage(writer.out[i]) = n

\* C6: when the run of main has ended, the records Render wrote (the
\* document only grows) are in the fixed stage order, no record of a later
\* stage before a record of an earlier one, and a Render that returned with
\* a valid camera has written every stage: the optional ones (search
\* paths, lights, sub-assemblies) when the scene has them.
C6_FixedStageOrder ==
    Ended =>
        /\ StagesOrdered(writer.out)
        /\ (pc = "done" /\ scene.camName # "") =>
               /\ \A n \in {1, 2, 4, 5, 6, 11, 12, 13, 14, 15, 16} : HasStage(n)
               /\ HasStage(3) <=> NumPaths(scene.paths) > 0
               /\ HasStage(7) <=> scene.lights > 0
               /\ HasStage(8) <=> Len(env.subs) > 0

\* C6 witness: a finished run whose document has every one of the stages.
C6_Witness ==
    /\ pc = "done"
    /\ scene.camName # ""
    /\ \A n \in 1..16 : HasStage(n)

\* C7 (as claimed): when a fatal error is raised, no comment and no tag
\* has been written to the document.
C7_FatalBeforeAnyWriterCall ==
    (pc = "aborted" /\ writer.raised = "SohoError") =>
        \A i \in 1..Len(writer.out) :
            writer.out[i].k \notin {"comment", "begin", "end", "leaf"}

\* C8 (as claimed): a run in which an object yielded no geometry surfaces
\* the warning and completes the document through end project.
C8_NoGeometryRenderContinues ==
    (/\ Ended
     /\ scene.camName # ""
     /\ \E i \in 1..Len(env.warnings) :
            env.warnings[i] = "No geometry returned on object")
        => (pc = "done" /\ DocumentComplete)

\* The scene of the end-to-end example: a named camera without blur, no
\* light, one static object with geometry and one material of its own.
SimpleScene ==
    /\ scene.camName # ""
    /\ ~env.mblur
    /\ scene.lights = 0
    /\ Len(scene.objectlist) = 1
    /\ LET o == scene.objectlist[1]
       IN  /\ ~o.xblur /\ o.gblur = 0 /\ o.handle /\ ~o.attr
           /\ o.objmat # "" /\ Shops[o.objmat].found

\* C9 (as claimed): the render of the simple scene opens exactly one
\* camera, one assembly (named master), one object, one object_instance
\* and one material, and ends with the project tag closed and no open tag.
C9_SimpleSceneDocument ==
    (Ended /\ SimpleScene) =>
        /\ CountBegin(writer.out, "camera") = 1
        /\ CountBegin(writer.out, "assembly") = 1
        /\ \E i \in 1..Len(writer.out) :
              /\ writer.out[i].k = "begin" /\ writer.out[i].n = "assembly"
              /\ writer.out[i].a = Str("master")
        /\ CountBegin(writer.out, "object") = 1
        /\ CountBegin(writer.out, "object_instance") = 1
        /\ CountBegin(writer.out, "material") = 1
        /\ DocumentComplete

\* Before record i the document holds the opening tag `tag` named name.
DefinedBefore(i, tag, name) ==
    \E j \in 1..(i - 1) :
        /\ writer.out[j].k = "begin"
        /\ writer.out[j].n = tag
        /\ writer.out[j].a = name

IsInstance(i, tag) == writer.out[i].k = "begin" /\ writer.out[i].n = tag

\* C16 (as claimed): every object_instance and assembly_instance of the
\* document names, as what it instances, an object or assembly defined
\* earlier in the document under that name.
C16_InstancesNameEarlierDefinitions ==
    Ended =>
        \A i \in 1..Len(writer.out) :
            /\ IsInstance(i, "object_instance")
                  => DefinedBefore(i, "object", writer.out[i].b)
            /\ IsInstance(i, "assembly_instance")
                  => DefinedBefore(i, "assembly", writer.out[i].b)

\* C16 (amended): every assembly_instance names an assembly defined earlier
\* in the document, and every object_instance names <object>.0, the first
\* mesh of an object defined earlier in the document.
C16_InstancesOfEarlierDefinitions ==
    Ended =>
        \A i \in 1..Len(writer.out) :
            /\ IsInstance(i, "object_instance")
                  => LET ref == writer.out[i].b
                     IN  /\ Len(ref) > 1
                         /\ ref[Len(ref)] = ".0"
                         /\ DefinedBefore(i, "object",
                                          SubSeq(ref, 1, Len(ref) - 1))
            /\ IsInstance(i, "assembly_instance")
                  => DefinedBefore(i, "assembly", writer.out[i].b)

\* C16 witness: a finished document with an object instance, the instance
\* of a sub-assembly and the instance of the master assembly.
C16_Witness ==
    /\ pc = "done"
    /\ \E i \in 1..Len(writer.out) : IsInstance(i, "object_instance")
    /\ \E i \in 1..Len(writer.out) :
          IsInstance(i, "assembly_instance") /\ writer.out[i].b = <<"sub", "0">>
    /\ \E i \in 1..Len(writer.out) :
          IsInstance(i, "assembly_instance") /\ writer.out[i].b = Str("master")

\* The shaders wrangleMaterial finds on the shop: one for each context that
\* is not disabled and has a shader string.
ShaderCount(path) ==
    Cardinality({c \in DOMAIN Shops[path].shaders :
                    c \notin Shops[path].disabled
                        /\ Len(Shops[path].shaders[c]) > 0})

\* Nothing but lights and shaders may be missing from the scene: a named
\* camera, the project paths exist, every object with a SOP has geometry
\* and no material has more than one shader.
OnlyOptionalMissing ==
    /\ scene.camName # ""
    /\ \A k \in DOMAIN scene.paths : scene.paths[k] # "missing"
    /\ \A i \in 1..Len(scene.objectlist) :
          LET o == scene.objectlist[i]
          IN  /\ o.soppath # "" => o.handle
              /\ \A path \in {o.objmat} \ {""} : ShaderCount(path) <= 1
              /\ \A n \in 1..Len(o.parts) : \A j \in 1..Len(o.parts[n]) :
                    o.parts[n][j] # "" => ShaderCount(o.parts[n][j]) <= 1

\* An object of the scene is written without any shader.
SomeObjectWithoutShader ==
    \E i \in 1..Len(scene.objectlist) :
        LET o == scene.objectlist[i]
        IN  /\ o.soppath # ""
            /\ ~o.attr
            /\ (o.objmat = "" \/ ~Shops[o.objmat].found)

\* The records of the object instance opened at record i: up to the next
\* closing object_instance tag.
InstanceBody(i) ==
    LET end == CHOOSE j \in (i + 1)..Len(writer.out) :
                   /\ writer.out[j].k = "end"
                   /\ writer.out[j].n = "object_instance"
                   /\ \A l \in (i + 1)..(j - 1) :
                         ~(writer.out[l].k = "end"
                               /\ writer.out[l].n = "object_instance")
    IN  SubSeq(writer.out, i + 1, end - 1)

IsAssignMaterial(rec) == rec.n = "assign_material"

IsComment(rec) == rec.k = "comment"

\* The material assignments and the comments in the object instance opened
\* at record i.
Assigned(i) == Len(SelectSeq(InstanceBody(i), IsAssignMaterial))

Comments(i) == Len(SelectSeq(InstanceBody(i), IsComment))

C26_RenderReturnsBalanced ==
    pc = "render_done" =>
        /\ writer.tags_stack = << >>
        /\ writer.indent_level = 0

\* The elements `tag` of the document that are named `name`.
CountNamed(tag, name) ==
    Cardinality({i \in 1..Len(writer.out) :
                    /\ writer.out[i].k = "begin"
                    /\ writer.out[i].n = tag
                    /\ writer.out[i].a = name})

\* C27 (as claimed): when the run has ended, every assign_material record
\* of the document references a material that exactly one material element
\* of the document defines, and every shop the objects of the render
\* referenced has exactly one shader group and one material.
C27_MaterialsDefinedOnce ==
    (Ended /\ WriterCreated) =>
        /\ \A i \in 1..Len(writer.out) :
              IsAssignMaterial(writer.out[i])
                  => CountNamed("material", writer.out[i].c) = 1
        /\ \A n \in 1..Len(env.theShaderList) :
              /\ CountNamed("shader_group", <<"/shg", env.theShaderList[n]>>) = 1
              /\ CountNamed("material", <<"/mat", env.theShaderList[n]>>) = 1

====
